---------------------------- MODULE Spec2Model ----------------------------
(***************************************************************************)
(* The RRM rice-mill tracker: the SQLite store (config entry and the four  *)
(* transaction tables), the add / edit / delete handlers of the Streamlit  *)
(* scripts that write it, and the views the scripts compute from it        *)
(* (stock ledger, yield report, daily summary).                            *)
(*                                                                         *)
(* Three scripts share one schema:                                         *)
(*   rrm_streamlit_app.py             adds with quintal / kilogram entry,  *)
(*                                    get_cfg / set_cfg, daily summary     *)
(*   rrm_streamlit_app_cloud_v2_3_2.py  adds in quintal only, edit and     *)
(*                                    delete, stock ledger, yield report   *)
(*   rrm_streamlit_app_cloud_v2_3.py  the same views plus daily summary    *)
(* The first script keeps its database in rrm_tracker.db, the cloud        *)
(* scripts keep theirs in data/rrm_tracker.db: a store is written by the   *)
(* handlers of one script only.  The variable script says which one runs.  *)
(*                                                                         *)
(* Numbers.  REAL columns and Python floats are modelled as exact          *)
(* rationals [n, d] in lowest terms (d > 0); binary rounding error is not  *)
(* modelled.  A missing number (SQL NULL, NaN, pd.NA) is the record NA.    *)
(* Text.  A TEXT value whose characters matter (a stored date, the stored  *)
(* config value) is a sequence of character codes; identifiers of paddy    *)
(* types and grades, and product names, are opaque strings.                *)
(* The free-text notes column, and husk / polish / expense of              *)
(* milling_input, take no part in any view and are left out of the rows.   *)
(***************************************************************************)
EXTENDS Integers, Sequences, FiniteSets, TLC

VARIABLES
    script,          \* the script that runs against this store: "v1" or "cloud"
    config,          \* config.value of key 'kg_per_qtl' (TEXT)
    purchases,       \* rows of table purchases
    milling_input,   \* rows of table milling_input
    milling_output,  \* rows of table milling_output
    sales,           \* rows of table sales
    seq,             \* sqlite_sequence: last AUTOINCREMENT id of each table
    paddy_types,     \* rows of master table paddy_types
    rice_grades,     \* rows of master table rice_grades
    shown,           \* the views as last computed since the last write
    sidebar          \* value shown by the "KG per Quintal" number_input

vars == <<script, config, purchases, milling_input, milling_output, sales, seq,
          paddy_types, rice_grades, shown, sidebar>>
tables == <<purchases, milling_input, milling_output, sales>>

-----------------------------------------------------------------------------
(* Bounds of the model *)

\* inserts (over all four tables) in one behaviour of a two-table scenario
MaxInserts == 3
\* inserts in one behaviour when all four tables are written
MaxInsertsAll == 2
\* rows inserted in all tables together in a run with the master handlers
MaxInsertsMasters == 2
\* rows inserted in all tables together in a run that shows the views
MaxInsertsViews == 2
\* rows inserted in a run with the handlers that rename master rows
MaxInsertsNames == 1
\* rows inserted in a run in which the sidebar value is typed
MaxInsertsSidebar == 1

\* st.date_input values offered: 9 and 10 January 2025 (a one-digit and a
\* two-digit day, which order differently as unpadded text)
Dates == { <<2025, 1, 9>>, <<2025, 1, 10>> }
\* values typed into the "KG per Quintal" number_input
KgPerQtlChoices == { 200 }
\* values typed into a "(qtl)" number_input of an add form
QtlChoices == { 0, 3 }
\* values typed into a "(kg)" number_input of an add form
KgChoices == { 0, 50 }
\* values typed into a "Rate" number_input
RateChoices == { 0, 2 }
\* values typed into the quantity number_input of an edit form, which has no
\* min_value
EditQtyChoices == { 1, -1 }

-----------------------------------------------------------------------------
(* Program constants *)

KG_PER_QTL_DEFAULT == 100
\* number_input("KG per Quintal", min_value=1, max_value=200)
KgMin == 1
KgMax == 200

\* seeded paddy types offered by the "Paddy" selectbox (two of the three seeds)
PaddyIds == { "PAD-1121", "PAD-1509" }
\* seeded grades offered by the "Grade" selectbox (two of the ten seeds)
GradeIds == { "GRD-WAND", "GRD-DUB" }
Products == { "Rice", "Husk", "Polish" }
\* "v1": rrm_streamlit_app.py; "cloud": rrm_streamlit_app_cloud_v2_3_2.py and
\* rrm_streamlit_app_cloud_v2_3.py
Scripts == { "v1", "cloud" }
\* Python None stored in a TEXT column: SQL NULL
NULL == "<NULL>"
\* first option of the "Grade (if Rice)" selectbox: the empty string
Blank == ""

-----------------------------------------------------------------------------
(* Rational arithmetic *)

RECURSIVE GCD(_, _)
GCD(a, b) == IF b = 0 THEN a ELSE GCD(b, a % b)

Abs(i) == IF i < 0 THEN -i ELSE i

\* the rational p/q (q # 0) in lowest terms with a positive denominator
Rat(p, q) ==
    LET s == IF q < 0 THEN -1 ELSE 1
        g == GCD(Abs(p), Abs(q))
    IN  [n |-> (s * p) \div g, d |-> (s * q) \div g]

R(i) == [n |-> i, d |-> 1]
Zero == R(0)
\* NULL / NaN / pd.NA in a numeric column
NA == [n |-> 0, d |-> 0]
IsNA(x) == x.d = 0

RAdd(x, y) == Rat(x.n * y.d + y.n * x.d, x.d * y.d)
RSub(x, y) == Rat(x.n * y.d - y.n * x.d, x.d * y.d)
RMul(x, y) == Rat(x.n * y.n, x.d * y.d)
\* x / y for y # 0
RDiv(x, y) == Rat(x.n * y.d, x.d * y.n)
RLt(x, y) == x.n * y.d < y.n * x.d
RPos(x) == x.n > 0
RIsZero(x) == x.n = 0 /\ x.d # 0

\* round(x, 2): to the nearest multiple of 1/100, a tie to the even one
Round2(x) ==
    LET p == x.n * 100
        f == p \div x.d
        r == p - f * x.d
        up == \/ 2 * r > x.d
              \/ (2 * r = x.d /\ f % 2 = 1)
    IN  Rat(IF up THEN f + 1 ELSE f, 100)

-----------------------------------------------------------------------------
(* Text *)

Digit(i) == 48 + i
Hyphen == 45

\* str(n) for an int n >= 0: its decimal digits
RECURSIVE IntToStr(_)
IntToStr(n) == IF n < 10 THEN <<Digit(n)>>
               ELSE Append(IntToStr(n \div 10), Digit(n % 10))

\* format(n, "0<w>d"): decimal digits, zero-padded on the left to width w
RECURSIVE ZeroPad(_, _)
ZeroPad(s, w) == IF Len(s) >= w THEN s ELSE ZeroPad(<<Digit(0)>> \o s, w)

IsDigits(s) == Len(s) > 0 /\ \A i \in 1..Len(s) : s[i] \in 48..57

\* int(s) / float(s) of a string of decimal digits
RECURSIVE StrToInt(_)
StrToInt(s) == IF Len(s) = 0 THEN 0
               ELSE 10 * StrToInt(SubSeq(s, 1, Len(s) - 1)) + (s[Len(s)] - 48)

\* memcmp order of two TEXT values (SQLite's BINARY collation): a < b
RECURSIVE StrLess(_, _)
StrLess(a, b) ==
    IF Len(b) = 0 THEN FALSE
    ELSE IF Len(a) = 0 THEN TRUE
    ELSE IF a[1] # b[1] THEN a[1] < b[1]
    ELSE StrLess(Tail(a), Tail(b))

\* datetime.date.isoformat(): YYYY-MM-DD
isoformat(dte) ==
    ZeroPad(IntToStr(dte[1]), 4) \o <<Hyphen>> \o ZeroPad(IntToStr(dte[2]), 2)
        \o <<Hyphen>> \o ZeroPad(IntToStr(dte[3]), 2)

\* a parsed date that does not exist (to_date's None, pandas' NaT)
NoDate == <<0, 0, 0>>

\* datetime.strptime(s, "%Y-%m-%d").date(), None when it fails
strptime_date(s) ==
    IF /\ Len(s) = 10
       /\ s[5] = Hyphen /\ s[8] = Hyphen
       /\ IsDigits(SubSeq(s, 1, 4)) /\ IsDigits(SubSeq(s, 6, 7))
       /\ IsDigits(SubSeq(s, 9, 10))
    THEN LET y == StrToInt(SubSeq(s, 1, 4))
             m == StrToInt(SubSeq(s, 6, 7))
             d == StrToInt(SubSeq(s, 9, 10))
         IN  IF y >= 1 /\ m \in 1..12 /\ d \in 1..31 THEN <<y, m, d>> ELSE NoDate
    ELSE NoDate

\* strptime_date tabulated over the texts the forms store
ParsedDates == [ s \in { isoformat(d) : d \in Dates } |-> strptime_date(s) ]

\* to_date(s)
to_date(s) == IF s \in DOMAIN ParsedDates THEN ParsedDates[s] ELSE strptime_date(s)

\* order of two dates: a <= b
DateLeq(a, b) ==
    \/ a[1] < b[1]
    \/ (a[1] = b[1] /\ a[2] < b[2])
    \/ (a[1] = b[1] /\ a[2] = b[2] /\ a[3] <= b[3])

-----------------------------------------------------------------------------
(* The store *)

\* get_cfg that ignores the stored row and answers the default
get_cfg_default == IntToStr(KG_PER_QTL_DEFAULT)

\* get_cfg("kg_per_qtl", KG_PER_QTL_DEFAULT): the stored TEXT value (the row is
\* seeded by init_db, so the default is never returned)
get_cfg == config

\* the date-range filter above every edit form: the rows of t whose parsed
\* date lies in [dfrom, dto]
DateMask(t, dfrom, dto) ==
    { r \in t : DateLeq(dfrom, to_date(r.dt)) /\ DateLeq(to_date(r.dt), dto) }

\* dates the two "From" / "To" date_input widgets are set to
FilterDates == Dates \cup { <<2025, 1, 1>> }

\* the row can be brought into the edit form's selectbox by some setting of
\* the two date_input widgets
Selectable(row) ==
    LET Date == to_date(row.dt)
    IN  { w \in FilterDates \X FilterDates :
            DateLeq(w[1], Date) /\ DateLeq(Date, w[2]) } # {}

Ids(t) == { r.id : r \in t }
TotalInserts == seq.purchases + seq.milling_input + seq.milling_output + seq.sales

\* a normalisation that divides by the value shown in the sidebar
NormalizeWithSidebar(qty_qtl, qty_kg, cfg) ==
    IF RPos(qty_qtl) THEN qty_qtl
    ELSE IF RPos(qty_kg) THEN RDiv(qty_kg, R(sidebar))
    ELSE Zero

\* a normalisation in which a kilogram entry takes precedence
NormalizeKgFirst(qty_qtl, qty_kg, cfg) ==
    IF RPos(qty_kg) THEN RDiv(qty_kg, R(StrToInt(cfg)))
    ELSE IF RPos(qty_qtl) THEN qty_qtl
    ELSE Zero

\* final quantity of an add with quintal and kilogram entry:
\*   q if q > 0 else (kg / float(get_cfg(...)) if kg > 0 else 0)
Normalize(qty_qtl, qty_kg, cfg) ==
    IF RPos(qty_qtl) THEN qty_qtl
    ELSE IF RPos(qty_kg) THEN RDiv(qty_kg, R(StrToInt(cfg)))
    ELSE Zero

\* x * y if (x and y) else 0
ProductOrZero(x, y) ==
    IF ~RIsZero(x) /\ ~RIsZero(y) THEN RMul(x, y) ELSE Zero

\* the config table without a row for kg_per_qtl
NoConfig == <<>>

\* an init_db that stores the default with INSERT OR REPLACE
init_db_config_replace(c) == IntToStr(KG_PER_QTL_DEFAULT)

\* init_db: INSERT OR IGNORE INTO config(key,value) VALUES('kg_per_qtl',
\* str(KG_PER_QTL_DEFAULT)); c is the stored value, NoConfig when there is none
init_db_config(c) == IF c = NoConfig THEN IntToStr(KG_PER_QTL_DEFAULT) ELSE c

\* init_db, seeds: the rows of INSERT OR IGNORE INTO paddy_types (two of three)
SeedPaddy ==
    { [paddy_id |-> "PAD-1121", paddy_name |-> "1121"],
      [paddy_id |-> "PAD-1509", paddy_name |-> "1509"] }

\* init_db, seeds: the rows of INSERT OR IGNORE INTO rice_grades (two of ten)
SeedGrades ==
    { [grade_id |-> "GRD-WAND", grade_name |-> "Wand", default_price_qtl |-> Zero],
      [grade_id |-> "GRD-DUB", grade_name |-> "Dubar", default_price_qtl |-> Zero] }

\* seeds that are inserted into an empty table only
seed_if_empty(t) == IF t = {} THEN SeedPaddy ELSE t

\* INSERT OR IGNORE of the seed rows: a row is skipped when its primary key
\* or its UNIQUE name is already there (no two seed rows conflict)
seed_paddy_types(t) ==
    t \cup { s \in SeedPaddy :
               \A m \in t : m.paddy_id # s.paddy_id /\ m.paddy_name # s.paddy_name }

seed_rice_grades(t) ==
    t \cup { s \in SeedGrades :
               \A m \in t : m.grade_id # s.grade_id /\ m.grade_name # s.grade_name }

\* the options of a "Paddy" selectbox: paddy_list["paddy_id"]
PaddyOptions == { m.paddy_id : m \in paddy_types }
\* the options of a "Grade" selectbox: grade_list["grade_id"]
GradeOptions == { m.grade_id : m \in rice_grades }

\* no view has been computed since the last write
NotShown == [rendered |-> FALSE]

Init ==
    /\ script \in Scripts
    /\ paddy_types = seed_paddy_types({})
    /\ rice_grades = seed_rice_grades({})
    /\ shown = NotShown
    /\ config = init_db_config(NoConfig)
    /\ purchases = {}
    /\ milling_input = {}
    /\ milling_output = {}
    /\ sales = {}
    /\ seq = [purchases |-> 0, milling_input |-> 0, milling_output |-> 0, sales |-> 0]
    /\ sidebar = StrToInt(get_cfg)

-----------------------------------------------------------------------------
(* Sidebar: Save Conversion *)

\* a set_cfg that stores the text of the value as a float ("200.0")
set_cfg_float(value) == config' = IntToStr(value) \o <<46, Digit(0)>>

\* set_cfg("kg_per_qtl", kg_per_qtl): INSERT OR REPLACE the value as str(value)
set_cfg(value) == config' = IntToStr(value)

\* rrm_streamlit_app.py, sidebar: Save Conversion
SaveConversion ==
    \E kg_per_qtl \in KgPerQtlChoices :
        /\ script = "v1"
        /\ kg_per_qtl \in KgMin..KgMax
        /\ sidebar' = kg_per_qtl
        /\ set_cfg(kg_per_qtl)
        /\ shown' = NotShown
        /\ UNCHANGED <<script, purchases, milling_input, milling_output, sales, seq,
                       paddy_types, rice_grades>>

\* cloud v2_3_2, sidebar: Save Conversion; exec_sql binds int(kg_per_qtl), which
\* the TEXT column stores as its decimal text
SaveConversionCloud ==
    \E kg_per_qtl \in KgPerQtlChoices :
        /\ script = "cloud"
        /\ kg_per_qtl \in KgMin..KgMax
        /\ sidebar' = kg_per_qtl
        /\ config' = IntToStr(kg_per_qtl)
        /\ shown' = NotShown
        /\ UNCHANGED <<script, purchases, milling_input, milling_output, sales, seq,
                       paddy_types, rice_grades>>

\* values typed into the "KG per Quintal" number_input without pressing
\* Save Conversion
SidebarChoices == { 50, 200 }

\* sidebar: a value is typed into "KG per Quintal"; the script run that
\* follows presses no button
ChangeSidebar ==
    \E kg_per_qtl \in SidebarChoices :
        /\ kg_per_qtl \in KgMin..KgMax
        /\ sidebar' = kg_per_qtl
        /\ UNCHANGED <<script, config, purchases, milling_input, milling_output, sales,
                       seq, paddy_types, rice_grades, shown>>

-----------------------------------------------------------------------------
(* Purchases *)

\* rrm_streamlit_app.py, tab3: Add Purchase (quintal and / or kilogram entry)
AddPurchase(max) ==
    \E dte \in Dates, paddy_sel \in PaddyOptions, q \in QtlChoices, kg \in KgChoices,
       rate \in RateChoices :
        LET final_qtl == Normalize(R(q), R(kg), get_cfg)
            cost == ProductOrZero(final_qtl, R(rate))
        IN  /\ script = "v1" /\ TotalInserts < max
            /\ purchases' = purchases \cup
                   { [id |-> seq.purchases + 1, dt |-> isoformat(dte),
                      paddy_id |-> paddy_sel, qty_qtl |-> R(q), qty_kg |-> R(kg),
                      final_qtl |-> final_qtl, rate_qtl |-> R(rate), cost |-> cost] }
            /\ seq' = [seq EXCEPT !.purchases = @ + 1]
            /\ shown' = NotShown
            /\ UNCHANGED <<sidebar, script, config, milling_input, milling_output, sales,
                           paddy_types, rice_grades>>

\* an add into a table whose id is a plain rowid: one more than the largest
\* id the table holds now
AddPurchaseCloudRowid(max) ==
    \E dt_new \in Dates, pid \in PaddyOptions, qty \in QtlChoices, rate \in RateChoices :
        LET cost == RMul(R(qty), R(rate))
            ids == { r.id : r \in purchases }
            rowid == IF ids = {} THEN 1
                     ELSE (CHOOSE i \in ids : \A j \in ids : j <= i) + 1
        IN  /\ script = "cloud" /\ TotalInserts < max
            /\ purchases' = purchases \cup
                   { [id |-> rowid, dt |-> isoformat(dt_new),
                      paddy_id |-> pid, qty_qtl |-> R(qty), qty_kg |-> Zero,
                      final_qtl |-> R(qty), rate_qtl |-> R(rate), cost |-> cost] }
            /\ seq' = [seq EXCEPT !.purchases = @ + 1]
            /\ shown' = NotShown
            /\ UNCHANGED <<sidebar, script, config, milling_input, milling_output, sales,
                           paddy_types, rice_grades>>

\* cloud script, tab_pur: Add Purchase (quintal entry only)
AddPurchaseCloud(max) ==
    \E dt_new \in Dates, pid \in PaddyOptions, qty \in QtlChoices, rate \in RateChoices :
        LET cost == RMul(R(qty), R(rate))
        IN  /\ script = "cloud" /\ TotalInserts < max
            /\ purchases' = purchases \cup
                   { [id |-> seq.purchases + 1, dt |-> isoformat(dt_new),
                      paddy_id |-> pid, qty_qtl |-> R(qty), qty_kg |-> Zero,
                      final_qtl |-> R(qty), rate_qtl |-> R(rate), cost |-> cost] }
            /\ seq' = [seq EXCEPT !.purchases = @ + 1]
            /\ shown' = NotShown
            /\ UNCHANGED <<sidebar, script, config, milling_input, milling_output, sales,
                           paddy_types, rice_grades>>

\* an edit that writes the new quantity into the entry column as well
PurchaseEditedEntry(row, new_qty, new_rate) ==
    [row EXCEPT !.qty_qtl = new_qty, !.final_qtl = new_qty, !.rate_qtl = new_rate,
                !.cost = RMul(new_qty, new_rate)]

\* an edit that leaves the stored cost as it was
PurchaseEditedStaleCost(row, new_qty, new_rate) ==
    [row EXCEPT !.final_qtl = new_qty, !.rate_qtl = new_rate]

\* the row written by Save Changes of the purchase edit form
PurchaseEdited(row, new_qty, new_rate) ==
    [row EXCEPT !.final_qtl = new_qty, !.rate_qtl = new_rate,
                !.cost = RMul(new_qty, new_rate)]

\* cloud script, tab_pur: Save Changes
EditPurchase ==
    \E row \in purchases :
      /\ script = "cloud"
      /\ Selectable(row)
      /\
        \E new_qty \in { row.final_qtl } \cup { R(q) : q \in EditQtyChoices },
           new_rate \in { row.rate_qtl } \cup { R(x) : x \in RateChoices } :
            /\ purchases' = { IF r.id = row.id
                              THEN PurchaseEdited(r, new_qty, new_rate)
                              ELSE r : r \in purchases }
            /\ shown' = NotShown
            /\ UNCHANGED <<sidebar, script, config, milling_input, milling_output, sales, seq,
                           paddy_types, rice_grades>>

\* a delete that removes every purchase of the selected row's paddy type
DeletePurchaseOfPaddy ==
    \E row \in purchases :
      /\ script = "cloud"
      /\ Selectable(row)
      /\
        /\ purchases' = { r \in purchases : r.paddy_id # row.paddy_id }
        /\ shown' = NotShown
        /\ UNCHANGED <<sidebar, script, config, milling_input, milling_output, sales, seq,
                       paddy_types, rice_grades>>

\* cloud script, tab_pur: Delete Purchase
DeletePurchase ==
    \E row \in purchases :
      /\ script = "cloud"
      /\ Selectable(row)
      /\
        /\ purchases' = { r \in purchases : r.id # row.id }
        /\ shown' = NotShown
        /\ UNCHANGED <<sidebar, script, config, milling_input, milling_output, sales, seq,
                       paddy_types, rice_grades>>

NextPurchases(max) ==
    \/ AddPurchase(max)
    \/ AddPurchaseCloud(max)
    \/ EditPurchase
    \/ DeletePurchase

-----------------------------------------------------------------------------
(* Milling input *)

\* rrm_streamlit_app.py, tab4: Add Milling Input
AddMillingInput(max) ==
    \E dte \in Dates, paddy_sel \in PaddyOptions, q \in QtlChoices, kg \in KgChoices :
        LET final_used_qtl == Normalize(R(q), R(kg), get_cfg)
        IN  /\ script = "v1" /\ TotalInserts < max
            /\ milling_input' = milling_input \cup
                   { [id |-> seq.milling_input + 1, dt |-> isoformat(dte),
                      paddy_id |-> paddy_sel, used_qtl |-> R(q), used_kg |-> R(kg),
                      final_used_qtl |-> final_used_qtl] }
            /\ seq' = [seq EXCEPT !.milling_input = @ + 1]
            /\ shown' = NotShown
            /\ UNCHANGED <<sidebar, script, config, purchases, milling_output, sales,
                           paddy_types, rice_grades>>

\* cloud script, tab_mi: Add Milling Input
AddMillingInputCloud(max) ==
    \E mi_dt \in Dates, mi_pid \in PaddyOptions, mi_used \in QtlChoices :
        /\ script = "cloud" /\ TotalInserts < max
        /\ milling_input' = milling_input \cup
               { [id |-> seq.milling_input + 1, dt |-> isoformat(mi_dt),
                  paddy_id |-> mi_pid, used_qtl |-> R(mi_used), used_kg |-> Zero,
                  final_used_qtl |-> R(mi_used)] }
        /\ seq' = [seq EXCEPT !.milling_input = @ + 1]
        /\ shown' = NotShown
        /\ UNCHANGED <<sidebar, script, config, purchases, milling_output, sales,
                       paddy_types, rice_grades>>

\* cloud script, tab_mi: Save Changes
EditMillingInput ==
    \E row \in milling_input :
      /\ script = "cloud"
      /\ Selectable(row)
      /\
        \E used \in { row.final_used_qtl } \cup { R(q) : q \in EditQtyChoices } :
            /\ milling_input' = { IF r.id = row.id
                                  THEN [r EXCEPT !.final_used_qtl = used]
                                  ELSE r : r \in milling_input }
            /\ shown' = NotShown
            /\ UNCHANGED <<sidebar, script, config, purchases, milling_output, sales, seq,
                           paddy_types, rice_grades>>

\* a delete that removes every milling input of the selected row's day
DeleteMillingInputOfDay ==
    \E row \in milling_input :
      /\ script = "cloud"
      /\ Selectable(row)
      /\
        /\ milling_input' = { r \in milling_input : r.dt # row.dt }
        /\ shown' = NotShown
        /\ UNCHANGED <<sidebar, script, config, purchases, milling_output, sales, seq,
                       paddy_types, rice_grades>>

\* cloud script, tab_mi: Delete
DeleteMillingInput ==
    \E row \in milling_input :
      /\ script = "cloud"
      /\ Selectable(row)
      /\
        /\ milling_input' = { r \in milling_input : r.id # row.id }
        /\ shown' = NotShown
        /\ UNCHANGED <<sidebar, script, config, purchases, milling_output, sales, seq,
                       paddy_types, rice_grades>>

NextMillingInput(max) ==
    \/ AddMillingInput(max)
    \/ AddMillingInputCloud(max)
    \/ EditMillingInput
    \/ DeleteMillingInput

-----------------------------------------------------------------------------
(* Milling output *)

\* rrm_streamlit_app.py, tab5: Add Milling Output
AddMillingOutput(max) ==
    \E dte \in Dates, paddy_sel \in PaddyOptions, grade_sel \in GradeOptions,
       q \in QtlChoices, kg \in KgChoices :
        LET final_out_qtl == Normalize(R(q), R(kg), get_cfg)
        IN  /\ script = "v1" /\ TotalInserts < max
            /\ milling_output' = milling_output \cup
                   { [id |-> seq.milling_output + 1, dt |-> isoformat(dte),
                      paddy_id |-> paddy_sel, grade_id |-> grade_sel,
                      out_qtl |-> R(q), out_kg |-> R(kg),
                      final_out_qtl |-> final_out_qtl] }
            /\ seq' = [seq EXCEPT !.milling_output = @ + 1]
            /\ shown' = NotShown
            /\ UNCHANGED <<sidebar, script, config, purchases, milling_input, sales,
                           paddy_types, rice_grades>>

\* cloud script, tab_mo: Add Milling Output
AddMillingOutputCloud(max) ==
    \E mo_dt \in Dates, mo_pid \in PaddyOptions, mo_gid \in GradeOptions,
       mo_qty \in QtlChoices :
        /\ script = "cloud" /\ TotalInserts < max
        /\ milling_output' = milling_output \cup
               { [id |-> seq.milling_output + 1, dt |-> isoformat(mo_dt),
                  paddy_id |-> mo_pid, grade_id |-> mo_gid,
                  out_qtl |-> R(mo_qty), out_kg |-> Zero,
                  final_out_qtl |-> R(mo_qty)] }
        /\ seq' = [seq EXCEPT !.milling_output = @ + 1]
        /\ shown' = NotShown
        /\ UNCHANGED <<sidebar, script, config, purchases, milling_input, sales,
                       paddy_types, rice_grades>>

\* cloud script, tab_mo: Save Changes
EditMillingOutput ==
    \E row \in milling_output :
      /\ script = "cloud"
      /\ Selectable(row)
      /\
        \E qty \in { row.final_out_qtl } \cup { R(q) : q \in EditQtyChoices } :
            /\ milling_output' = { IF r.id = row.id
                                   THEN [r EXCEPT !.final_out_qtl = qty]
                                   ELSE r : r \in milling_output }
            /\ shown' = NotShown
            /\ UNCHANGED <<sidebar, script, config, purchases, milling_input, sales, seq,
                           paddy_types, rice_grades>>

\* cloud script, tab_mo: Delete
DeleteMillingOutput ==
    \E row \in milling_output :
      /\ script = "cloud"
      /\ Selectable(row)
      /\
        /\ milling_output' = { r \in milling_output : r.id # row.id }
        /\ shown' = NotShown
        /\ UNCHANGED <<sidebar, script, config, purchases, milling_input, sales, seq,
                       paddy_types, rice_grades>>

NextMillingOutput(max) ==
    \/ AddMillingOutput(max)
    \/ AddMillingOutputCloud(max)
    \/ EditMillingOutput
    \/ DeleteMillingOutput

-----------------------------------------------------------------------------
(* Sales *)

\* a default rate that ignores the product
def_rate_any_product(product, gid) ==
    IF gid # Blank
    THEN LET m == CHOOSE g \in rice_grades : g.grade_id = gid
         IN  m.default_price_qtl
    ELSE Zero

\* the value the "Rate" number_input starts from: the grade's default price
\* for Rice with a grade chosen, 0.0 otherwise
def_rate(product, gid) ==
    IF product = "Rice" /\ gid # Blank
    THEN LET m == CHOOSE g \in rice_grades : g.grade_id = gid
         IN  m.default_price_qtl
    ELSE Zero

\* the rates an Add Sale can be pressed with: the default left in the widget
\* or a value typed over it
RateOffered(product, gid) ==
    { R(x) : x \in RateChoices } \cup { def_rate(product, gid) }

\* rrm_streamlit_app.py, tab6: Add Sale; the grade column gets the selectbox
\* value (possibly the empty first option) for Rice, None otherwise
AddSale(max) ==
    \E dte \in Dates, product \in Products, grade_sel \in { Blank } \cup GradeOptions,
       q \in QtlChoices, kg \in KgChoices :
      \E rate \in RateOffered(product, grade_sel) :
        LET final_qtl == Normalize(R(q), R(kg), get_cfg)
            revenue == ProductOrZero(final_qtl, rate)
        IN  /\ script = "v1" /\ TotalInserts < max
            /\ sales' = sales \cup
                   { [id |-> seq.sales + 1, dt |-> isoformat(dte), product |-> product,
                      grade_id |-> IF product = "Rice" THEN grade_sel ELSE NULL,
                      qty_qtl |-> R(q), qty_kg |-> R(kg), final_qtl |-> final_qtl,
                      rate_qtl |-> rate, revenue |-> revenue] }
            /\ seq' = [seq EXCEPT !.sales = @ + 1]
            /\ shown' = NotShown
            /\ UNCHANGED <<sidebar, script, config, purchases, milling_input, milling_output,
                           paddy_types, rice_grades>>

\* cloud script, tab_sales: Add Sale; the grade column gets the selectbox
\* value for Rice with a grade chosen, None otherwise
AddSaleCloud(max) ==
    \E sa_dt \in Dates, sa_prod \in Products, sa_gid \in { Blank } \cup GradeOptions,
       sa_qty \in QtlChoices :
      \E sa_rate \in RateOffered(sa_prod, sa_gid) :
        LET revenue == ProductOrZero(R(sa_qty), sa_rate)
        IN  /\ script = "cloud" /\ TotalInserts < max
            /\ sales' = sales \cup
                   { [id |-> seq.sales + 1, dt |-> isoformat(sa_dt), product |-> sa_prod,
                      grade_id |-> IF sa_prod = "Rice" /\ sa_gid # Blank
                                   THEN sa_gid ELSE NULL,
                      qty_qtl |-> R(sa_qty), qty_kg |-> Zero, final_qtl |-> R(sa_qty),
                      rate_qtl |-> sa_rate, revenue |-> revenue] }
            /\ seq' = [seq EXCEPT !.sales = @ + 1]
            /\ shown' = NotShown
            /\ UNCHANGED <<sidebar, script, config, purchases, milling_input, milling_output,
                           paddy_types, rice_grades>>

\* the row written by Save Changes of the sale edit form:
\* revenue = qty * (rate or 0)
SaleEdited(row, qty, rate) ==
    [row EXCEPT !.final_qtl = qty, !.rate_qtl = rate,
                !.revenue = RMul(qty, IF RIsZero(rate) THEN Zero ELSE rate)]

\* cloud script, tab_sales: Save Changes
EditSale ==
    \E row \in sales :
      /\ script = "cloud"
      /\ Selectable(row)
      /\
        \E qty \in { row.final_qtl } \cup { R(q) : q \in EditQtyChoices },
           rate \in { row.rate_qtl } \cup { R(x) : x \in RateChoices } :
            /\ sales' = { IF r.id = row.id THEN SaleEdited(r, qty, rate) ELSE r :
                          r \in sales }
            /\ shown' = NotShown
            /\ UNCHANGED <<sidebar, script, config, purchases, milling_input, milling_output, seq,
                           paddy_types, rice_grades>>

\* cloud script, tab_sales: Delete
DeleteSale ==
    \E row \in sales :
      /\ script = "cloud"
      /\ Selectable(row)
      /\
        /\ sales' = { r \in sales : r.id # row.id }
        /\ shown' = NotShown
        /\ UNCHANGED <<sidebar, script, config, purchases, milling_input, milling_output, seq,
                       paddy_types, rice_grades>>

NextSales(max) ==
    \/ AddSale(max)
    \/ AddSaleCloud(max)
    \/ EditSale
    \/ DeleteSale

-----------------------------------------------------------------------------
(* Masters *)

\* what is typed into the two text_inputs of Add Paddy
NewPaddy == [paddy_id |-> "PAD-1718", paddy_name |-> "1718"]
\* what is typed into the two text_inputs of Add Grade
NewGrade == [grade_id |-> "GRD-DUBAR2", grade_name |-> "Dubar 2",
             default_price_qtl |-> Zero]
\* values typed into the "Default Price" number_input
PriceChoices == { 0, 5 }

\* id and name pairs typed into the two text_inputs of Add Paddy: the new
\* pair, the new id with a seed's name, a seed's id with the new name
PaddyInputs ==
    { NewPaddy,
      [paddy_id |-> "PAD-1718", paddy_name |-> "1121"],
      [paddy_id |-> "PAD-1121", paddy_name |-> "1718"] }
\* id and name pairs typed into the two text_inputs of Add Grade, stored with
\* default price 0
GradeInputs ==
    { NewGrade,
      [NewGrade EXCEPT !.grade_name = "Dubar"],
      [NewGrade EXCEPT !.grade_id = "GRD-DUB"] }
\* names typed into the "New Name" text_input of Rename
NewNames == { "Basmati", "1509" }

\* an INSERT without the PRIMARY KEY and UNIQUE constraints
paddy_insert_any(m) == TRUE

\* INSERT INTO paddy_types: fails on a primary key or UNIQUE name already there
paddy_insert_ok(m) ==
    \A x \in paddy_types : x.paddy_id # m.paddy_id /\ x.paddy_name # m.paddy_name

\* INSERT INTO rice_grades: fails on a primary key or UNIQUE name already there
grade_insert_ok(m) ==
    \A x \in rice_grades : x.grade_id # m.grade_id /\ x.grade_name # m.grade_name

\* UPDATE rice_grades SET default_price_qtl=? WHERE grade_id=?
price_updated(sel, price) ==
    { IF m.grade_id = sel THEN [m EXCEPT !.default_price_qtl = price] ELSE m :
      m \in rice_grades }

\* rrm_streamlit_app.py, tab2: Add Grade (a failed INSERT is reported with
\* st.error and changes nothing)
AddGrade ==
    \E m \in GradeInputs :
        /\ script = "v1"
        /\ grade_insert_ok(m)
        /\ rice_grades' = rice_grades \cup { m }
        /\ shown' = NotShown
        /\ UNCHANGED <<sidebar, script, config, purchases, milling_input, milling_output, sales,
                       seq, paddy_types>>

\* rrm_streamlit_app.py, tab2: Update Price
UpdatePrice ==
    \E gid_sel \in GradeOptions, new_price \in PriceChoices :
        /\ script = "v1"
        /\ rice_grades' = price_updated(gid_sel, R(new_price))
        /\ shown' = NotShown
        /\ UNCHANGED <<sidebar, script, config, purchases, milling_input, milling_output, sales,
                       seq, paddy_types>>

\* UPDATE paddy_types SET paddy_name=? WHERE paddy_id=?: fails when another
\* row holds the name (UNIQUE)
paddy_rename_ok(sel, new) ==
    \A x \in paddy_types : x.paddy_name = new => x.paddy_id = sel

paddy_renamed(sel, new) ==
    { IF m.paddy_id = sel THEN [m EXCEPT !.paddy_name = new] ELSE m : m \in paddy_types }

\* rrm_streamlit_app.py, tab2: Add Paddy Type (a failed INSERT is reported with
\* st.error and changes nothing)
AddPaddyType ==
    \E m \in PaddyInputs :
        /\ script = "v1"
        /\ paddy_insert_ok(m)
        /\ paddy_types' = paddy_types \cup { m }
        /\ shown' = NotShown
        /\ UNCHANGED <<sidebar, script, config, purchases, milling_input, milling_output, sales,
                       seq, rice_grades>>

\* rrm_streamlit_app.py, tab2: Rename (a failed UPDATE is reported with st.error
\* and changes nothing)
RenamePaddyType ==
    \E old \in PaddyOptions, new_name \in NewNames :
        /\ script = "v1"
        /\ paddy_rename_ok(old, new_name)
        /\ paddy_types' = paddy_renamed(old, new_name)
        /\ shown' = NotShown
        /\ UNCHANGED <<sidebar, script, config, purchases, milling_input, milling_output, sales,
                       seq, rice_grades>>

\* cloud script, tab_masters: Add Paddy (a failed INSERT stops the script run
\* and changes nothing); st.rerun() starts the next run, which calls init_db
AddPaddyCloud ==
    \E m \in PaddyInputs :
        /\ script = "cloud"
        /\ paddy_insert_ok(m)
        /\ paddy_types' = seed_paddy_types(paddy_types \cup { m })
        /\ shown' = NotShown
        /\ UNCHANGED <<sidebar, script, config, purchases, milling_input, milling_output, sales,
                       seq, rice_grades>>

\* cloud script, tab_masters: Rename Paddy (a failed UPDATE stops the script
\* run and changes nothing), then st.rerun() and its init_db
RenamePaddyCloud ==
    \E sel \in PaddyOptions, new \in NewNames :
        /\ script = "cloud"
        /\ paddy_rename_ok(sel, new)
        /\ paddy_types' = seed_paddy_types(paddy_renamed(sel, new))
        /\ shown' = NotShown
        /\ UNCHANGED <<sidebar, script, config, purchases, milling_input, milling_output, sales,
                       seq, rice_grades>>

\* cloud script, tab_masters: Confirm Delete, then st.rerun() and its init_db
DeletePaddy ==
    \E sel \in PaddyOptions :
        /\ script = "cloud"
        /\ paddy_types' = seed_paddy_types({ m \in paddy_types : m.paddy_id # sel })
        /\ shown' = NotShown
        /\ UNCHANGED <<sidebar, script, config, purchases, milling_input, milling_output, sales,
                       seq, rice_grades>>

\* cloud script, tab_masters: Add Grade, then st.rerun() and its init_db
AddGradeCloud ==
    \E m \in GradeInputs :
        /\ script = "cloud"
        /\ grade_insert_ok(m)
        /\ rice_grades' = seed_rice_grades(rice_grades \cup { m })
        /\ shown' = NotShown
        /\ UNCHANGED <<sidebar, script, config, purchases, milling_input, milling_output, sales,
                       seq, paddy_types>>

\* cloud script, tab_masters: Update Price, then st.rerun() and its init_db
UpdatePriceCloud ==
    \E sel \in GradeOptions, price \in PriceChoices :
        /\ script = "cloud"
        /\ rice_grades' = seed_rice_grades(price_updated(sel, R(price)))
        /\ shown' = NotShown
        /\ UNCHANGED <<sidebar, script, config, purchases, milling_input, milling_output, sales,
                       seq, paddy_types>>

\* cloud script, tab_masters: Confirm Delete Grade, then st.rerun() and its
\* init_db
DeleteGrade ==
    \E sel \in GradeOptions :
        /\ script = "cloud"
        /\ rice_grades' = seed_rice_grades({ m \in rice_grades : m.grade_id # sel })
        /\ shown' = NotShown
        /\ UNCHANGED <<sidebar, script, config, purchases, milling_input, milling_output, sales,
                       seq, paddy_types>>

-----------------------------------------------------------------------------
(* SQL and pandas helpers *)

\* SUM(col) over the rows given as a set of <<id, value>> pairs: NULL over no
\* row (no stored value is NULL)
RECURSIVE SUM(_)
SUM(S) ==
    IF S = {} THEN NA
    ELSE LET x == CHOOSE y \in S : TRUE
             rest == S \ { x }
         IN  IF rest = {} THEN x[2] ELSE RAdd(x[2], SUM(rest))

COALESCE(x, dflt) == IF IsNA(x) THEN dflt ELSE x

\* DataFrame.fillna(0) on a numeric cell, and on a key cell (a NULL key read
\* from SQL is None, which fillna replaces by the number 0 as well)
fillna(x) == IF IsNA(x) THEN Zero ELSE x
FilledKey == "0"
fillna_key(k) == IF k = NULL THEN FilledKey ELSE k

\* the merge as an inner join (how="inner"): only the keys of both sides
merge_inner(left, right) ==
    [ k \in DOMAIN left \cap DOMAIN right |-> [ l |-> left[k], r |-> right[k] ] ]

\* pd.merge(left, right, on=key, how="outer") of two frames given as functions
\* key -> value: one row per key of either side, NA on the side that lacks it
\* (pandas matches a None key with a None key)
merge_outer(left, right) ==
    [ k \in DOMAIN left \cup DOMAIN right |->
        [ l |-> IF k \in DOMAIN left THEN left[k] ELSE NA,
          r |-> IF k \in DOMAIN right THEN right[k] ELSE NA ] ]

\* the name cell of a row whose key has no row in the names frame: NaN
NoName == "<NaN>"

\* names = SELECT paddy_id, paddy_name FROM paddy_types, as a function id -> name
paddy_names == [ k \in PaddyOptions |->
                   (CHOOSE m \in paddy_types : m.paddy_id = k).paddy_name ]

\* gnames = SELECT grade_id, grade_name FROM rice_grades, as a function id -> name
grade_names == [ k \in GradeOptions |->
                   (CHOOSE m \in rice_grades : m.grade_id = k).grade_name ]

\* frame.merge(names, on=key, how="left"): the name cell of the row of key k
merge_left(names, k) == IF k \in DOMAIN names THEN names[k] ELSE NoName

-----------------------------------------------------------------------------
(* Stock ledger (cloud scripts, tab_stock) *)

\* SELECT paddy_id, COALESCE(SUM(final_qtl),0) FROM purchases GROUP BY paddy_id
paddy_in ==
    [ p \in { r.paddy_id : r \in purchases } |->
        COALESCE(SUM({ <<r.id, r.final_qtl>> : r \in { x \in purchases : x.paddy_id = p } }),
                 Zero) ]

\* the usage summed over the entry column used_qtl instead of final_used_qtl
paddy_used_entered ==
    [ p \in { r.paddy_id : r \in milling_input } |->
        COALESCE(SUM({ <<r.id, r.used_qtl>> :
                        r \in { x \in milling_input : x.paddy_id = p } }), Zero) ]

\* SELECT paddy_id, COALESCE(SUM(final_used_qtl),0) FROM milling_input GROUP BY paddy_id
paddy_used ==
    [ p \in { r.paddy_id : r \in milling_input } |->
        COALESCE(SUM({ <<r.id, r.final_used_qtl>> :
                        r \in { x \in milling_input : x.paddy_id = p } }), Zero) ]

\* a balance that never goes below 0
paddy_bal_clamped ==
    LET m == merge_outer(paddy_in, paddy_used)
        net(k) == RSub(fillna(m[k].l), fillna(m[k].r))
    IN  { [ paddy_id |-> fillna_key(k),
            in_qtl |-> fillna(m[k].l),
            used_qtl |-> fillna(m[k].r),
            Closing_qtl |-> IF RLt(net(k), Zero) THEN Zero ELSE net(k) ] : k \in DOMAIN m }

\* paddy_bal up to the Closing_qtl column: the outer merge, fillna(0), and
\* Closing_qtl = in_qtl - used_qtl
paddy_bal ==
    LET m == merge_outer(paddy_in, paddy_used)
    IN  { [ paddy_id |-> fillna_key(k),
            in_qtl |-> fillna(m[k].l),
            used_qtl |-> fillna(m[k].r),
            Closing_qtl |-> RSub(fillna(m[k].l), fillna(m[k].r)) ] : k \in DOMAIN m }

\* the Paddy Stock frame: paddy_bal left-merged with the names; the model
\* keeps the key of each row next to the four columns shown
paddy_stock ==
    { [ paddy_id |-> row.paddy_id,
        Paddy |-> merge_left(paddy_names, row.paddy_id),
        in_qtl |-> row.in_qtl,
        used_qtl |-> row.used_qtl,
        Closing_qtl |-> row.Closing_qtl ] : row \in paddy_bal }

\* SELECT grade_id, COALESCE(SUM(final_out_qtl),0) FROM milling_output GROUP BY grade_id
grade_out ==
    [ g \in { r.grade_id : r \in milling_output } |->
        COALESCE(SUM({ <<r.id, r.final_out_qtl>> :
                        r \in { x \in milling_output : x.grade_id = g } }), Zero) ]

\* the sold quantity without the product filter
grade_sold_any_product ==
    [ g \in { r.grade_id : r \in sales } |->
        COALESCE(SUM({ <<r.id, r.final_qtl>> : r \in { x \in sales : x.grade_id = g } }),
                 Zero) ]

\* SELECT grade_id, COALESCE(SUM(final_qtl),0) FROM sales WHERE product='Rice'
\* GROUP BY grade_id
grade_sold ==
    LET rice == { r \in sales : r.product = "Rice" }
    IN  [ g \in { r.grade_id : r \in rice } |->
            COALESCE(SUM({ <<r.id, r.final_qtl>> : r \in { x \in rice : x.grade_id = g } }),
                     Zero) ]

\* the Rice Grade Stock frame: the outer merge, fillna(0), Closing_qtl =
\* out_qtl - sold_qtl, left-merged with the names; the model keeps the key of
\* each row next to the four columns shown
grade_stock ==
    LET m == merge_outer(grade_out, grade_sold)
    IN  { [ grade_id |-> fillna_key(k),
            Grade |-> merge_left(grade_names, fillna_key(k)),
            out_qtl |-> fillna(m[k].l),
            sold_qtl |-> fillna(m[k].r),
            Closing_qtl |-> RSub(fillna(m[k].l), fillna(m[k].r)) ] : k \in DOMAIN m }

-----------------------------------------------------------------------------
(* Yield report (cloud scripts, tab_yield) *)

\* Series.round(2) on a column of dtype object.  used.replace({0: pd.NA})
\* turns the float column into an object column as soon as one value is 0,
\* the quotient by it is an object column too, and what round does on an
\* object column depends on the pandas the script is deployed with: it raises
\* TypeError (numpy's rint loop has no method to call on a float object; later
\* an explicit "Expected numeric dtype"), or it returns the column unchanged
\* (the block manager's round skips non-numeric blocks).
RoundOnObject == { "TypeError", "unchanged" }

\* one cell of  out * 100.0 / used.replace({0: pd.NA})
yield_quotient(used, out) ==
    IF RIsZero(used) THEN NA ELSE RDiv(RMul(out, R(100)), used)

\* the Yield_% column of a frame given as a function key -> [used, out]: the
\* outcomes the deployed pandas can produce, each [raised, pct]; pct maps a
\* key to its Yield_% cell
yield_column(frame) ==
    LET quotient == [ k \in DOMAIN frame |-> yield_quotient(frame[k].used, frame[k].out) ]
        is_object == \E k \in DOMAIN frame : RIsZero(frame[k].used)
    IN  IF ~is_object
        THEN { [ raised |-> FALSE,
                 pct |-> [ k \in DOMAIN frame |-> Round2(quotient[k]) ] ] }
        ELSE { IF how = "TypeError"
               THEN [ raised |-> TRUE, pct |-> quotient ]
               ELSE [ raised |-> FALSE, pct |-> quotient ] : how \in RoundOnObject }

\* SELECT paddy_id, COALESCE(SUM(final_out_qtl),0) FROM milling_output GROUP BY paddy_id
out_by_paddy ==
    [ p \in { r.paddy_id : r \in milling_output } |->
        COALESCE(SUM({ <<r.id, r.final_out_qtl>> :
                        r \in { x \in milling_output : x.paddy_id = p } }), Zero) ]

\* SELECT paddy_id, COALESCE(SUM(final_used_qtl),0) FROM milling_input GROUP BY paddy_id
used_by_paddy ==
    [ p \in { r.paddy_id : r \in milling_input } |->
        COALESCE(SUM({ <<r.id, r.final_used_qtl>> :
                        r \in { x \in milling_input : x.paddy_id = p } }), Zero) ]

\* y before the Yield_% column: the outer merge and fillna(0)
yield_frame_by_paddy ==
    LET m == merge_outer(used_by_paddy, out_by_paddy)
    IN  [ k \in DOMAIN m |-> [ used |-> fillna(m[k].l), out |-> fillna(m[k].r) ] ]

\* Overall Yield by Paddy Type: the possible outcomes, each either raised
\* (the script run stops with an exception) or the rows of y
yield_by_paddy ==
    LET y == yield_frame_by_paddy
    IN  { [ raised |-> o.raised,
            rows |-> IF o.raised THEN {}
                     ELSE { [ paddy_id |-> fillna_key(k),
                              Paddy |-> merge_left(paddy_names, fillna_key(k)),
                              paddy_used_qtl |-> y[k].used,
                              rice_out_qtl |-> y[k].out,
                              Yield |-> o.pct[k] ] : k \in DOMAIN y } ] :
          o \in yield_column(y) }

\* pd.to_datetime(text, errors="coerce").dt.date: the date of an ISO text,
\* NaT for a text that is no date
to_datetime_date(s) == to_date(s)

\* df.groupby("dt", dropna=True)[col].sum() of rows given as
\* <<id, parsed date, value>> triples: rows without a date are dropped
groupby_date_sum(S) ==
    [ d \in { x[2] : x \in S } \ { NoDate } |->
        SUM({ <<x[1], x[3]>> : x \in { z \in S : z[2] = d } }) ]

\* pd.concat([mi_g, mo_g], axis=1).fillna(0.0): dy before the Yield_% column
yield_frame_by_date ==
    LET mi_g == groupby_date_sum({ <<r.id, to_datetime_date(r.dt), r.final_used_qtl>> :
                                     r \in milling_input })
        mo_g == groupby_date_sum({ <<r.id, to_datetime_date(r.dt), r.final_out_qtl>> :
                                     r \in milling_output })
        m == merge_outer(mi_g, mo_g)
    IN  [ k \in DOMAIN m |-> [ used |-> fillna(m[k].l), out |-> fillna(m[k].r) ] ]

\* sort_values("Date", ascending=False): the dates of D, latest first
RECURSIVE sort_dates_descending(_)
sort_dates_descending(D) ==
    IF D = {} THEN <<>>
    ELSE LET latest == CHOOSE d \in D : \A e \in D : DateLeq(e, d)
         IN  <<latest>> \o sort_dates_descending(D \ { latest })

\* Daily Yield (All Paddies): the possible outcomes, each either raised or the
\* rows of dy in display order; an empty dy gets no Yield_% column and no sort
yield_by_date ==
    LET dy == yield_frame_by_date
        order == sort_dates_descending(DOMAIN dy)
    IN  IF DOMAIN dy = {} THEN { [ raised |-> FALSE, rows |-> <<>> ] }
        ELSE { [ raised |-> o.raised,
                 rows |-> IF o.raised THEN <<>>
                          ELSE [ i \in 1..Len(order) |->
                                   [ Date |-> order[i],
                                     Paddy_Used_qtl |-> dy[order[i]].used,
                                     Rice_Out_qtl |-> dy[order[i]].out,
                                     Yield |-> o.pct[order[i]] ] ] ] :
               o \in yield_column(dy) }

-----------------------------------------------------------------------------
(* Daily summary (rrm_streamlit_app.py tab1, cloud v2_3 tab_dash) *)

\* a TEXT column holding NULL (no handler stores one in dt)
NullText == <<0>>

\* a date column generated from the calendar instead of read from the tables
daily_dates_calendar == { isoformat(d) : d \in FilterDates }

\* SELECT dt FROM purchases UNION ... UNION SELECT dt FROM sales,
\* WHERE dt IS NOT NULL AND dt<>'' GROUP BY dt
daily_dates ==
    { dt \in { r.dt : r \in purchases } \cup { r.dt : r \in milling_input }
             \cup { r.dt : r \in milling_output } \cup { r.dt : r \in sales } :
        dt # NullText /\ dt # <<>> }

\* ORDER BY dt ASC
RECURSIVE order_by_text_asc(_)
order_by_text_asc(D) ==
    IF D = {} THEN <<>>
    ELSE LET low == CHOOSE d \in D : \A e \in D : e = d \/ StrLess(d, e)
         IN  <<low>> \o order_by_text_asc(D \ { low })

\* ORDER BY dt DESC: the texts of D, greatest first in memcmp order
RECURSIVE order_by_text_desc(_)
order_by_text_desc(D) ==
    IF D = {} THEN <<>>
    ELSE LET top == CHOOSE d \in D : \A e \in D : e = d \/ StrLess(e, d)
         IN  <<top>> \o order_by_text_desc(D \ { top })

\* SUM(final_qtl) FROM sales WHERE dt = d, whatever the product
sold_any_product_on(d) ==
    COALESCE(SUM({ <<r.id, r.final_qtl>> : r \in { x \in sales : x.dt = d } }), Zero)

\* (SELECT COALESCE(SUM(final_qtl),0) FROM sales WHERE dt = d.dt AND product='Rice')
rice_sold_on(d) ==
    COALESCE(SUM({ <<r.id, r.final_qtl>> :
                    r \in { x \in sales : x.dt = d /\ x.product = "Rice" } }), Zero)

\* the Daily Summary query: one row per date text, greatest text first
daily_summary ==
    LET order == order_by_text_desc(daily_dates)
    IN  [ i \in 1..Len(order) |->
            LET d == order[i]
            IN  [ Date |-> d,
                  Paddy_IN_qtl |->
                      COALESCE(SUM({ <<r.id, r.final_qtl>> :
                                      r \in { x \in purchases : x.dt = d } }), Zero),
                  Paddy_USED_qtl |->
                      COALESCE(SUM({ <<r.id, r.final_used_qtl>> :
                                      r \in { x \in milling_input : x.dt = d } }), Zero),
                  Rice_OUT_qtl |->
                      COALESCE(SUM({ <<r.id, r.final_out_qtl>> :
                                      r \in { x \in milling_output : x.dt = d } }), Zero),
                  Rice_Sold_qtl |-> rice_sold_on(d),
                  Sales_Revenue |->
                      COALESCE(SUM({ <<r.id, r.revenue>> :
                                      r \in { x \in sales : x.dt = d } }), Zero) ] ]

-----------------------------------------------------------------------------
(* Specifications *)

\* every handler of the script that runs, on all four tables
Next ==
    \/ SaveConversion
    \/ SaveConversionCloud
    \/ NextPurchases(MaxInsertsAll)
    \/ NextMillingInput(MaxInsertsAll)
    \/ NextMillingOutput(MaxInsertsAll)
    \/ NextSales(MaxInsertsAll)

Spec == Init /\ [][Next]_vars

InitCloud == Init /\ script = "cloud"

\* the cloud script's handlers that write the two tables the paddy stock is
\* computed from
NextPaddy ==
    \/ AddPurchaseCloud(MaxInserts)
    \/ EditPurchase
    \/ DeletePurchase
    \/ AddMillingInputCloud(MaxInserts)
    \/ EditMillingInput
    \/ DeleteMillingInput

SpecPaddy == InitCloud /\ [][NextPaddy]_vars

\* the cloud script's handlers that write the two tables the yield report is
\* computed from
NextYield ==
    \/ AddMillingInputCloud(MaxInserts)
    \/ EditMillingInput
    \/ DeleteMillingInput
    \/ AddMillingOutputCloud(MaxInserts)
    \/ EditMillingOutput
    \/ DeleteMillingOutput

SpecYield == InitCloud /\ [][NextYield]_vars

\* the cloud script's handlers that add and delete master rows, together
\* with its add handlers of the four transaction tables
NextMasters ==
    \/ AddPaddyCloud
    \/ DeletePaddy
    \/ AddGradeCloud
    \/ DeleteGrade
    \/ AddPurchaseCloud(MaxInsertsMasters)
    \/ AddMillingInputCloud(MaxInsertsMasters)
    \/ AddMillingOutputCloud(MaxInsertsMasters)
    \/ AddSaleCloud(MaxInsertsMasters)

SpecMasters == InitCloud /\ [][NextMasters]_vars

\* the handlers of both scripts that set a grade's default price, together
\* with their handlers that add a sale
NextPrices ==
    \/ UpdatePrice
    \/ UpdatePriceCloud
    \/ AddSale(MaxInsertsMasters)
    \/ AddSaleCloud(MaxInsertsMasters)

SpecPrices == Init /\ [][NextPrices]_vars

\* the handlers of both scripts that write the paddy_types table, with the
\* cloud script's handlers that write the rice_grades table, save the
\* conversion and add a purchase
NextNames ==
    \/ AddPaddyType
    \/ RenamePaddyType
    \/ AddGrade
    \/ AddPaddyCloud
    \/ RenamePaddyCloud
    \/ DeletePaddy
    \/ AddGradeCloud
    \/ DeleteGrade
    \/ UpdatePriceCloud
    \/ SaveConversionCloud
    \/ AddPurchaseCloud(MaxInsertsNames)

SpecNames == Init /\ [][NextNames]_vars

InitV1 == Init /\ script = "v1"

\* the sidebar of rrm_streamlit_app.py and its add handlers
NextSidebar ==
    \/ ChangeSidebar
    \/ SaveConversion
    \/ AddPurchase(MaxInsertsSidebar)
    \/ AddMillingInput(MaxInsertsSidebar)
    \/ AddMillingOutput(MaxInsertsSidebar)
    \/ AddSale(MaxInsertsSidebar)

SpecSidebar == InitV1 /\ [][NextSidebar]_vars

-----------------------------------------------------------------------------
(* A script run that only shows the views *)

\* a read that consumes the rows it returns
df_read_consumes(t) == {}

\* df_read on table t: the connection is opened, read_sql_query runs the
\* SELECT, and leaving the with block commits; these are the rows t holds
\* afterwards
df_read_leaves(t) == t

\* the frames the script shows: the Daily Summary of rrm_streamlit_app.py, the
\* Stock Ledger and the Yield % Report of the cloud script (the yield frames
\* as the outcomes the deployed pandas can produce)
Render ==
    IF script = "v1"
    THEN [rendered |-> TRUE, daily_summary |-> daily_summary]
    ELSE [rendered |-> TRUE, paddy_stock |-> paddy_stock, grade_stock |-> grade_stock,
          yield_by_paddy |-> yield_by_paddy, yield_by_date |-> yield_by_date]

\* a script run in which no button is pressed: init_db with its INSERT OR
\* IGNORE of the default conversion and of the seeds, then the df_reads that
\* compute the frames
ShowViews ==
    /\ shown' = Render
    /\ paddy_types' = df_read_leaves(seed_paddy_types(paddy_types))
    /\ rice_grades' = df_read_leaves(seed_rice_grades(rice_grades))
    /\ purchases' = df_read_leaves(purchases)
    /\ milling_input' = df_read_leaves(milling_input)
    /\ milling_output' = df_read_leaves(milling_output)
    /\ sales' = df_read_leaves(sales)
    /\ UNCHANGED <<sidebar, script, config, seq>>

\* script runs that show the views, between the add handlers of both scripts
NextViews ==
    \/ ShowViews
    \/ AddPaddyCloud
    \/ AddPurchase(MaxInsertsViews)
    \/ AddPurchaseCloud(MaxInsertsViews)
    \/ AddMillingInput(MaxInsertsViews)
    \/ AddMillingInputCloud(MaxInsertsViews)
    \/ AddMillingOutput(MaxInsertsViews)
    \/ AddMillingOutputCloud(MaxInsertsViews)
    \/ AddSale(MaxInsertsViews)
    \/ AddSaleCloud(MaxInsertsViews)

SpecViews == Init /\ [][NextViews]_vars

-----------------------------------------------------------------------------
(* Reference sums for the properties: the total, in id order, of one column *)
(* over the rows of a table that satisfy a condition                       *)

RECURSIVE RefTotal(_, _)
RefTotal(f, n) == IF n = 0 THEN Zero ELSE RAdd(RefTotal(f, n - 1), f[n])

\* purchased quantity of paddy type p
RefPurchased(p) ==
    RefTotal([ i \in 1..seq.purchases |->
                 IF \E r \in purchases : r.id = i /\ r.paddy_id = p
                 THEN (CHOOSE r \in purchases : r.id = i).final_qtl ELSE Zero ],
             seq.purchases)

RefUsed(p) ==
    RefTotal([ i \in 1..seq.milling_input |->
                 IF \E r \in milling_input : r.id = i /\ r.paddy_id = p
                 THEN (CHOOSE r \in milling_input : r.id = i).final_used_qtl ELSE Zero ],
             seq.milling_input)

RefGradeOut(g) ==
    RefTotal([ i \in 1..seq.milling_output |->
                 IF \E r \in milling_output : r.id = i /\ r.grade_id = g
                 THEN (CHOOSE r \in milling_output : r.id = i).final_out_qtl ELSE Zero ],
             seq.milling_output)

RefRiceSold(g) ==
    RefTotal([ i \in 1..seq.sales |->
                 IF \E r \in sales : r.id = i /\ r.grade_id = g /\ r.product = "Rice"
                 THEN (CHOOSE r \in sales : r.id = i).final_qtl ELSE Zero ],
             seq.sales)

-----------------------------------------------------------------------------
(* Properties *)

\* C1: every row of the paddy stock for a paddy type p has in_qtl equal to the
\* sum of final_qtl over the purchases of p, used_qtl equal to the sum of
\* final_used_qtl over the milling inputs of p, and Closing_qtl equal to
\* in_qtl - used_qtl, after any adds, edits and deletes.
C1_PaddyStockSums ==
    \A row \in paddy_stock :
        /\ row.in_qtl = RefPurchased(row.paddy_id)
        /\ row.used_qtl = RefUsed(row.paddy_id)
        /\ row.Closing_qtl = RSub(RefPurchased(row.paddy_id), RefUsed(row.paddy_id))

\* a paddy type with two purchases and a milling input, all non-zero, one of
\* the rows edited away from the quantity it was entered with
C1_Witness ==
    \E p \in PaddyIds :
        /\ Cardinality({ r \in purchases : r.paddy_id = p /\ RPos(r.final_qtl) }) = 2
        /\ \E r \in milling_input :
              r.paddy_id = p /\ RPos(r.final_used_qtl) /\ r.final_used_qtl # r.used_qtl
        /\ \E row \in paddy_stock : row.paddy_id = p /\ RPos(row.Closing_qtl)

\* C2: the paddy stock has exactly the paddy types referenced by purchases or
\* by milling_input; a type with purchases only has used_qtl = 0, a type with
\* milling input only has in_qtl = 0.
C2_PaddyStockOuterJoin ==
    LET bought == { r.paddy_id : r \in purchases }
        milled == { r.paddy_id : r \in milling_input }
    IN  /\ { row.paddy_id : row \in paddy_stock } = bought \cup milled
        /\ \A row \in paddy_stock :
              /\ row.paddy_id \in bought \ milled => row.used_qtl = Zero
              /\ row.paddy_id \in milled \ bought => row.in_qtl = Zero

\* one paddy type with a purchase and no milling input, another with a
\* milling input and no purchase
C2_Witness ==
    \E p \in PaddyIds, q \in PaddyIds :
        /\ \E r \in purchases : r.paddy_id = p /\ RPos(r.final_qtl)
        /\ \A r \in milling_input : r.paddy_id # p
        /\ \E r \in milling_input : r.paddy_id = q /\ RPos(r.final_used_qtl)
        /\ \A r \in purchases : r.paddy_id # q
        /\ Cardinality(paddy_stock) = 2

\* the grade a key of the grade stock stands for (fillna turns None into 0)
RefGradeOfKey(k) == IF k = FilledKey THEN NULL ELSE k

\* C3: every row of the grade stock for a grade g has out_qtl equal to the sum
\* of final_out_qtl over the milling outputs of g, sold_qtl equal to the sum of
\* final_qtl over the sales of g with product Rice only, and Closing_qtl equal
\* to out_qtl - sold_qtl; a grade on one side only appears, the other side 0.
C3_GradeStockSums ==
    /\ \A row \in grade_stock :
          LET g == RefGradeOfKey(row.grade_id)
          IN  /\ row.out_qtl = RefGradeOut(g)
              /\ row.sold_qtl = RefRiceSold(g)
              /\ row.Closing_qtl = RSub(RefGradeOut(g), RefRiceSold(g))
    /\ \A g \in GradeIds :
          (\/ \E r \in milling_output : r.grade_id = g
           \/ \E r \in sales : r.grade_id = g /\ r.product = "Rice")
          => \E row \in grade_stock : row.grade_id = g

\* a Rice sale of a grade next to a Husk sale, both non-zero: the grade has
\* no output, its row shows the Rice quantity only
C3_Witness ==
    \E g \in GradeIds :
        /\ \E r \in sales : r.product = "Rice" /\ r.grade_id = g /\ RPos(r.final_qtl)
        /\ \E r \in sales : r.product = "Husk" /\ RPos(r.final_qtl)
        /\ \E row \in grade_stock :
              row.grade_id = g /\ row.out_qtl = Zero /\ RPos(row.sold_qtl)

\* total, in id order, of Val over the rows of table t (ids 1..n) that Keep holds of
RefSum(t, n, Keep(_), Val(_)) ==
    RefTotal([ i \in 1..n |->
                 IF \E r \in t : r.id = i /\ Keep(r)
                 THEN Val(CHOOSE r \in t : r.id = i) ELSE Zero ], n)

RefUsedOfKey(k) ==
    RefSum(milling_input, seq.milling_input,
           LAMBDA r : fillna_key(r.paddy_id) = k, LAMBDA r : r.final_used_qtl)

RefOutOfKey(k) ==
    RefSum(milling_output, seq.milling_output,
           LAMBDA r : fillna_key(r.paddy_id) = k, LAMBDA r : r.final_out_qtl)

RefUsedOnDay(d) ==
    RefSum(milling_input, seq.milling_input,
           LAMBDA r : to_date(r.dt) = d, LAMBDA r : r.final_used_qtl)

RefOutOnDay(d) ==
    RefSum(milling_output, seq.milling_output,
           LAMBDA r : to_date(r.dt) = d, LAMBDA r : r.final_out_qtl)

\* the rows of a Daily Yield outcome, as a set
RefRowsOf(o) == { o.rows[i] : i \in 1..Len(o.rows) }

\* C4: neither yield view faults when a key's used quantity is 0 (a paddy type
\* with milling output and no milling input included); the Yield_% of such a
\* row is the missing marker, never a number.  Stated over every outcome the
\* deployed pandas can produce.
C4_YieldNeverFaults ==
    /\ \A o \in yield_by_paddy :
          /\ ~o.raised
          /\ \A row \in o.rows : RIsZero(row.paddy_used_qtl) => IsNA(row.Yield)
    /\ \A o \in yield_by_date :
          /\ ~o.raised
          /\ \A row \in RefRowsOf(o) : RIsZero(row.Paddy_Used_qtl) => IsNA(row.Yield)

\* C4, the part that holds: an outcome that does not fault shows the missing
\* marker on every row whose used quantity is 0, and a view none of whose rows
\* has used quantity 0 never faults.
C4_NoFabricatedYield ==
    /\ \A o \in yield_by_paddy :
          /\ \A row \in o.rows : RIsZero(row.paddy_used_qtl) => IsNA(row.Yield)
          /\ (\A k \in DOMAIN yield_frame_by_paddy :
                 ~RIsZero(yield_frame_by_paddy[k].used)) => ~o.raised
    /\ \A o \in yield_by_date :
          /\ \A row \in RefRowsOf(o) : RIsZero(row.Paddy_Used_qtl) => IsNA(row.Yield)
          /\ (\A k \in DOMAIN yield_frame_by_date :
                 ~RIsZero(yield_frame_by_date[k].used)) => ~o.raised

\* a paddy type with a non-zero milling output and no milling input, next to
\* a paddy type milled and produced
C4_Witness ==
    \E p \in PaddyIds, q \in PaddyIds :
        /\ \E r \in milling_output : r.paddy_id = p /\ RPos(r.final_out_qtl)
        /\ \A r \in milling_input : r.paddy_id # p
        /\ \E r \in milling_input : r.paddy_id = q /\ RPos(r.final_used_qtl)
        /\ \E o \in yield_by_paddy : o.raised

\* C5: in both yield views every row with used quantity > 0 has Yield_% equal
\* to out * 100 / used rounded to 2 decimals, used and out being the sums of
\* final_used_qtl and final_out_qtl for the row's key.
C5_YieldRounded ==
    /\ \A o \in yield_by_paddy : \A row \in o.rows :
          LET used == RefUsedOfKey(row.paddy_id)
              out == RefOutOfKey(row.paddy_id)
          IN  RPos(used) =>
                 row.Yield = Round2(RDiv(RMul(out, R(100)), used))
    /\ \A o \in yield_by_date : \A row \in RefRowsOf(o) :
          LET used == RefUsedOnDay(row.Date)
              out == RefOutOnDay(row.Date)
          IN  RPos(used) =>
                 row.Yield = Round2(RDiv(RMul(out, R(100)), used))

\* C5, the part that holds: the rounded quotient is shown whenever no row of
\* the view has used quantity 0, and the unrounded quotient otherwise.
C5_YieldQuotient ==
    /\ \A o \in yield_by_paddy : \A row \in o.rows :
          LET used == RefUsedOfKey(row.paddy_id)
              q == RDiv(RMul(RefOutOfKey(row.paddy_id), R(100)), used)
          IN  RPos(used) =>
                 /\ row.Yield \in { q, Round2(q) }
                 /\ (\A k \in DOMAIN yield_frame_by_paddy :
                        ~RIsZero(yield_frame_by_paddy[k].used)) => row.Yield = Round2(q)
    /\ \A o \in yield_by_date : \A row \in RefRowsOf(o) :
          LET used == RefUsedOnDay(row.Date)
              q == RDiv(RMul(RefOutOnDay(row.Date), R(100)), used)
          IN  RPos(used) =>
                 /\ row.Yield \in { q, Round2(q) }
                 /\ (\A k \in DOMAIN yield_frame_by_date :
                        ~RIsZero(yield_frame_by_date[k].used)) => row.Yield = Round2(q)

\* a paddy type with used 3 and out 1 (33.33 after rounding), shown next to a
\* paddy type with output and no input
C5_Witness ==
    \E p \in PaddyIds :
        /\ RefUsedOfKey(p) = R(3) /\ RefOutOfKey(p) = R(1)
        /\ \E k \in DOMAIN yield_frame_by_paddy : RIsZero(yield_frame_by_paddy[k].used)
        /\ \E o \in yield_by_paddy : \E row \in o.rows :
              row.paddy_id = p /\ row.Yield = Rat(100, 3)

\* the date texts stored in the four tables, NULL and '' left out
RefDateTexts ==
    { r.dt : r \in purchases \cup milling_input \cup milling_output \cup sales }
        \ { NullText, <<>> }

\* a < b for two calendar dates
RefEarlier(a, b) == a # b /\ DateLeq(a, b)

\* C6: the daily summary has exactly one row per distinct non-null, non-empty
\* date text stored in purchases, milling_input, milling_output or sales, and
\* the rows come latest date first.
C6_DailySummaryDates ==
    /\ Len(daily_summary) = Cardinality(RefDateTexts)
    /\ { daily_summary[i].Date : i \in 1..Len(daily_summary) } = RefDateTexts
    /\ \A i \in 1..Len(daily_summary), j \in 1..Len(daily_summary) :
          i < j => RefEarlier(to_date(daily_summary[j].Date),
                              to_date(daily_summary[i].Date))

\* two dates, each stored in a different table: 2025-01-10 above 2025-01-09
C6_Witness ==
    /\ Len(daily_summary) = 2
    /\ to_date(daily_summary[1].Date) = <<2025, 1, 10>>
    /\ to_date(daily_summary[2].Date) = <<2025, 1, 9>>
    /\ \E r \in sales : r.dt = daily_summary[1].Date
    /\ \E r \in purchases : r.dt = daily_summary[2].Date

\* C7: on the row of a date d, Paddy_IN, Paddy_USED and Rice_OUT are the sums
\* of final_qtl, final_used_qtl and final_out_qtl over the purchases, milling
\* inputs and milling outputs dated d, Rice_Sold the sum of final_qtl over the
\* sales dated d with product Rice, Sales_Revenue the sum of revenue over all
\* sales dated d; a date with Husk sales only shows 0 four times and revenue.
C7_DailySummarySums ==
    \A i \in 1..Len(daily_summary) :
        LET row == daily_summary[i]
            d == row.Date
            revenue == RefSum(sales, seq.sales, LAMBDA r : r.dt = d, LAMBDA r : r.revenue)
        IN  /\ row.Paddy_IN_qtl =
                  RefSum(purchases, seq.purchases,
                         LAMBDA r : r.dt = d, LAMBDA r : r.final_qtl)
            /\ row.Paddy_USED_qtl =
                  RefSum(milling_input, seq.milling_input,
                         LAMBDA r : r.dt = d, LAMBDA r : r.final_used_qtl)
            /\ row.Rice_OUT_qtl =
                  RefSum(milling_output, seq.milling_output,
                         LAMBDA r : r.dt = d, LAMBDA r : r.final_out_qtl)
            /\ row.Rice_Sold_qtl =
                  RefSum(sales, seq.sales,
                         LAMBDA r : r.dt = d /\ r.product = "Rice", LAMBDA r : r.final_qtl)
            /\ row.Sales_Revenue = revenue
            /\ (/\ \A r \in purchases \cup milling_input \cup milling_output : r.dt # d
                /\ \A r \in sales : r.dt = d => r.product = "Husk")
               => /\ row.Paddy_IN_qtl = Zero /\ row.Paddy_USED_qtl = Zero
                  /\ row.Rice_OUT_qtl = Zero /\ row.Rice_Sold_qtl = Zero
                  /\ row.Sales_Revenue = revenue

\* a date whose only row is a Husk sale of non-zero quantity and revenue
C7_Witness ==
    \E i \in 1..Len(daily_summary) :
        LET d == daily_summary[i].Date
        IN  /\ \A r \in purchases \cup milling_input \cup milling_output : r.dt # d
            /\ Cardinality({ r \in sales : r.dt = d }) = 1
            /\ \E r \in sales :
                  /\ r.dt = d /\ r.product = "Husk" /\ RPos(r.final_qtl)
                  /\ RPos(r.revenue) /\ daily_summary[i].Sales_Revenue = r.revenue
            /\ daily_summary[i].Rice_Sold_qtl = Zero

\* quantity entered in quintals, in kilograms, and stored, of the rows of the
\* four tables under one set of names
RefEntries(pu, mi, mo, sa) ==
    { [id |-> <<"purchases", r.id>>, qtl |-> r.qty_qtl, kg |-> r.qty_kg,
       final |-> r.final_qtl] : r \in pu }
    \cup { [id |-> <<"milling_input", r.id>>, qtl |-> r.used_qtl, kg |-> r.used_kg,
            final |-> r.final_used_qtl] : r \in mi }
    \cup { [id |-> <<"milling_output", r.id>>, qtl |-> r.out_qtl, kg |-> r.out_kg,
            final |-> r.final_out_qtl] : r \in mo }
    \cup { [id |-> <<"sales", r.id>>, qtl |-> r.qty_qtl, kg |-> r.qty_kg,
            final |-> r.final_qtl] : r \in sa }

\* the rows a step inserts
RefAdded ==
    { e \in RefEntries(purchases', milling_input', milling_output', sales') :
        e.id \notin { x.id : x \in RefEntries(purchases, milling_input,
                                              milling_output, sales) } }

\* C8: the quantity an add stores is the quintal entry when that is > 0
\* (whatever the kilogram entry), the kilogram entry divided by the configured
\* kg-per-quintal when the quintal entry is 0 and the kilogram entry > 0, and
\* 0 when both are 0; the same for purchases, milling_input, milling_output
\* and sales.
C8_AddNormalizes ==
    [][ \A e \in RefAdded :
          /\ RPos(e.qtl) => e.final = e.qtl
          /\ (RIsZero(e.qtl) /\ RPos(e.kg)) =>
                e.final = RDiv(e.kg, R(StrToInt(config)))
          /\ (RIsZero(e.qtl) /\ RIsZero(e.kg)) => e.final = Zero ]_vars

\* a row entered with both units that kept the quintal entry, next to a row
\* of another table entered in kilograms only
C8_Witness ==
    \E e \in RefEntries(purchases, milling_input, milling_output, sales),
       f \in RefEntries(purchases, milling_input, milling_output, sales) :
        /\ e.id[1] # f.id[1]
        /\ RPos(e.qtl) /\ RPos(e.kg) /\ e.final = e.qtl
        /\ RIsZero(f.qtl) /\ RPos(f.kg) /\ RPos(f.final) /\ f.final # f.kg

\* C9: a step that changes the stored kg-per-quintal changes nothing else: all
\* rows of the four tables, their quantities, cost and revenue, stay as they
\* were; a row added in kilograms afterwards is divided by the value in force
\* when it is added.
C9_SaveConversionFrame ==
    [][ /\ config' # config =>
              UNCHANGED <<purchases, milling_input, milling_output, sales, seq>>
        /\ \A e \in RefAdded :
              (RIsZero(e.qtl) /\ RPos(e.kg)) =>
                  RMul(e.final, R(StrToInt(config))) = e.kg ]_vars

\* kg-per-quintal saved as 200 between two adds of 50 kg: the earlier row
\* keeps 50/100, the later one has 50/200
C9_Witness ==
    /\ StrToInt(config) = 200
    /\ \E e \in RefEntries(purchases, milling_input, milling_output, sales),
          f \in RefEntries(purchases, milling_input, milling_output, sales) :
          /\ RIsZero(e.qtl) /\ e.kg = R(50) /\ e.final = Rat(50, 100)
          /\ RIsZero(f.qtl) /\ f.kg = R(50) /\ f.final = Rat(50, 200)

\* C10: every purchases row has cost = final_qtl * rate_qtl and every sales
\* row has revenue = final_qtl * rate_qtl, after adds and after edits of the
\* quantity or the rate.
C10_DerivedMoney ==
    /\ \A r \in purchases : r.cost = RMul(r.final_qtl, r.rate_qtl)
    /\ \A r \in sales : r.revenue = RMul(r.final_qtl, r.rate_qtl)

\* a purchase and a sale, both edited to another quantity, with non-zero
\* cost and revenue
C10_Witness ==
    /\ \E r \in purchases :
          r.final_qtl # r.qty_qtl /\ RPos(r.cost) /\ r.cost # RMul(r.qty_qtl, r.rate_qtl)
    /\ \E r \in sales :
          r.final_qtl # r.qty_qtl /\ RPos(r.revenue)
          /\ r.revenue # RMul(r.qty_qtl, r.rate_qtl)

\* C11: a sales row has a grade reference exactly when its product is Rice:
\* every Rice sale has one, no Husk or Polish sale has one.
C11_GradeIffRice ==
    \A r \in sales : (r.product = "Rice") <=> (r.grade_id \notin { NULL, Blank })

\* a Husk sale without grade next to a Rice sale stored without grade
C11_Witness ==
    /\ \E r \in sales : r.product = "Husk" /\ r.grade_id = NULL
    /\ \E r \in sales : r.product = "Rice" /\ r.grade_id = NULL

\* purchased minus used of paddy type p, produced minus sold (as Rice) of grade g
RefPaddyNet(p) == RSub(RefPurchased(p), RefUsed(p))
RefGradeNet(g) == RSub(RefGradeOut(g), RefRiceSold(g))

\* C12: nothing is clamped or refused.  While the cloud script accepts adds
\* (the model's insert bound is not reached), a milling input larger than the
\* closing stock of its paddy type can be added, and so can a Rice sale larger
\* than the closing stock of its grade; every row of paddy_stock and of
\* grade_stock reports in - used (out - sold) as it is, negative when the
\* used (sold) quantity is the larger one.
C12_NoClamping ==
    /\ (script = "cloud" /\ TotalInserts < MaxInsertsAll) =>
          /\ \A p \in PaddyIds :
                RLt(RefPaddyNet(p), R(3)) =>
                   ENABLED (/\ AddMillingInputCloud(MaxInsertsAll)
                            /\ \E r \in milling_input' :
                                  /\ r.id > seq.milling_input /\ r.paddy_id = p
                                  /\ RLt(RefPaddyNet(p), r.final_used_qtl))
          /\ \A g \in GradeIds :
                RLt(RefGradeNet(g), R(3)) =>
                   ENABLED (/\ AddSaleCloud(MaxInsertsAll)
                            /\ \E r \in sales' :
                                  /\ r.id > seq.sales /\ r.product = "Rice"
                                  /\ r.grade_id = g
                                  /\ RLt(RefGradeNet(g), r.final_qtl))
    /\ \A row \in paddy_stock :
          /\ row.Closing_qtl = RefPaddyNet(row.paddy_id)
          /\ RLt(RefPurchased(row.paddy_id), RefUsed(row.paddy_id))
                => RLt(row.Closing_qtl, Zero)
    /\ \A row \in grade_stock :
          LET g == RefGradeOfKey(row.grade_id)
          IN  /\ row.Closing_qtl = RefGradeNet(g)
              /\ RLt(RefGradeOut(g), RefRiceSold(g)) => RLt(row.Closing_qtl, Zero)

\* a paddy type milled beyond what was purchased and a grade sold beyond what
\* was produced: both closing quantities are negative
C12_Witness ==
    /\ \E row \in paddy_stock :
          /\ RLt(row.Closing_qtl, Zero)
          /\ \E r \in milling_input : r.paddy_id = row.paddy_id /\ RPos(r.final_used_qtl)
    /\ \E row \in grade_stock :
          /\ RLt(row.Closing_qtl, Zero)
          /\ \E r \in sales : r.product = "Rice" /\ r.grade_id = row.grade_id

\* C13: the daily summary has a row for a date only while some row of some
\* table carries that date: none for a date no add used, none any more once
\* the last row of a date is deleted.
C13_NoSynthesizedDates ==
    /\ [](LET ds == daily_summary
          IN  \A i \in 1..Len(ds) :
                 /\ ds[i].Date \in RefDateTexts
                 /\ to_date(ds[i].Date) \in Dates)
    /\ [][ \A d \in RefDateTexts \ RefDateTexts' :
             LET ds == daily_summary'
             IN  \A j \in 1..Len(ds) : ds[j].Date # d ]_vars

\* the only purchase was deleted; the summary shows the one date left, that
\* of a sale
C13_Witness ==
    /\ seq.purchases = 1 /\ purchases = {}
    /\ Cardinality(sales) = 1
    /\ Len(daily_summary) = 1
    /\ \E r \in sales : r.dt = daily_summary[1].Date

\* C14: the daily yield never fails; it has one row per calendar date of a
\* milling input or a milling output whose stored date parses, with the sums
\* of that date on both sides (0 on a side without rows), latest date first.
C14_YieldByDate ==
    \A o \in yield_by_date :
        LET days == { to_date(r.dt) : r \in milling_input \cup milling_output }
                       \ { NoDate }
        IN  /\ ~o.raised
            /\ Len(o.rows) = Cardinality(days)
            /\ { o.rows[i].Date : i \in 1..Len(o.rows) } = days
            /\ \A i \in 1..Len(o.rows) :
                  /\ o.rows[i].Paddy_Used_qtl = RefUsedOnDay(o.rows[i].Date)
                  /\ o.rows[i].Rice_Out_qtl = RefOutOnDay(o.rows[i].Date)
            /\ \A i \in 1..Len(o.rows), j \in 1..Len(o.rows) :
                  i < j => RefEarlier(o.rows[j].Date, o.rows[i].Date)

\* a date with milling output only (non-zero) and another date with milling
\* input only
C14_Witness ==
    \E d \in Dates, e \in Dates :
        /\ d # e
        /\ \E r \in milling_output : to_date(r.dt) = d /\ RPos(r.final_out_qtl)
        /\ \A r \in milling_input : to_date(r.dt) # d
        /\ \E r \in milling_input : to_date(r.dt) = e /\ RPos(r.final_used_qtl)
        /\ \A r \in milling_output : to_date(r.dt) # e
        /\ \E o \in yield_by_date : o.raised

\* C15: the yield by paddy type has one row per paddy type of a milling input
\* or a milling output; a type with input only has rice_out_qtl = 0, a type
\* with output only has paddy_used_qtl = 0.
C15_YieldByPaddyOuterJoin ==
    LET milled == { r.paddy_id : r \in milling_input }
        produced == { r.paddy_id : r \in milling_output }
    IN  \A o \in yield_by_paddy :
           /\ { row.paddy_id : row \in o.rows } = milled \cup produced
           /\ \A row \in o.rows :
                 /\ row.paddy_id \in milled \ produced => row.rice_out_qtl = Zero
                 /\ row.paddy_id \in produced \ milled => row.paddy_used_qtl = Zero

\* a paddy type with non-zero output and no input, and the view raising
C15_Witness ==
    \E p \in PaddyIds :
        /\ \E r \in milling_output : r.paddy_id = p /\ RPos(r.final_out_qtl)
        /\ \A r \in milling_input : r.paddy_id # p
        /\ \E o \in yield_by_paddy : o.raised /\ o.rows = {}

\* C18: an add with a zero or negative quantity or rate writes nothing: every
\* row an add inserts has a final quantity > 0, and a rate > 0 where the table
\* has one.
C18_AddRejectsNonPositive ==
    [][ /\ \A e \in RefAdded : RPos(e.final)
        /\ \A r \in purchases' : r.id > seq.purchases => RPos(r.rate_qtl)
        /\ \A r \in sales' : r.id > seq.sales => RPos(r.rate_qtl) ]_vars

\* a purchase stored with quantity 0 next to a sale stored with rate 0
C18_Witness ==
    /\ \E r \in purchases : RIsZero(r.final_qtl) /\ RIsZero(r.qty_qtl) /\ RIsZero(r.qty_kg)
    /\ \E r \in sales : RPos(r.final_qtl) /\ RIsZero(r.rate_qtl)

\* C19: the stored kg-per-quintal is 100 at the start, is always the decimal
\* text of an integer in 1..200, and changes only by Save Conversion, after
\* which the value read back is the value saved.
C19_KgPerQuintalRange ==
    /\ StrToInt(get_cfg) = KG_PER_QTL_DEFAULT
    /\ [](/\ IsDigits(get_cfg) /\ IntToStr(StrToInt(get_cfg)) = get_cfg
          /\ StrToInt(get_cfg) \in KgMin..KgMax)
    /\ [][ config' # config =>
              /\ SaveConversion \/ SaveConversionCloud
              /\ StrToInt(get_cfg') \in KgPerQtlChoices ]_vars

\* 200 was saved and is what a kilogram add divides by
C19_Witness ==
    /\ StrToInt(get_cfg) = 200
    /\ \E r \in purchases : RIsZero(r.qty_qtl) /\ r.qty_kg = R(50) /\ r.final_qtl = Rat(50, 200)

-----------------------------------------------------------------------------
(* Default price of a grade *)

\* C20: a step that changes the rice_grades table changes the default price
\* of exactly one grade and nothing else: no other master row, no column but
\* the price, no sale row (so the rate and the revenue of every existing sale
\* stay as they were), no other table; and a sale is entered at a rate that
\* was not typed only when it is a Rice sale of a grade whose default price,
\* as stored when the sale is entered, is that rate.
C20_UpdatePriceFrame ==
    [][ /\ rice_grades' # rice_grades
            => /\ \E g \in rice_grades :
                    /\ rice_grades' \ rice_grades # {}
                    /\ \A m \in rice_grades' \ rice_grades :
                          /\ m.grade_id = g.grade_id
                          /\ m.grade_name = g.grade_name
                    /\ rice_grades \ rice_grades' = { g }
               /\ sales' = sales
               /\ UNCHANGED <<config, purchases, milling_input, milling_output, seq,
                              paddy_types>>
        /\ \A r \in sales' \ sales :
              \/ r.rate_qtl \in { R(x) : x \in RateChoices }
              \/ /\ r.product = "Rice"
                 /\ \E g \in rice_grades :
                       g.grade_id = r.grade_id /\ g.default_price_qtl = r.rate_qtl
      ]_vars

\* C20 witness: a grade whose default price is 5, a Rice sale of that grade
\* entered at the typed rate 2 with revenue 3 * 2, and a later Rice sale of
\* the same grade entered at the default rate 5 with revenue 3 * 5
C20_Witness ==
    \E g \in rice_grades : \E r1 \in sales, r2 \in sales :
        /\ g.default_price_qtl = R(5)
        /\ r1.id < r2.id
        /\ r1.product = "Rice" /\ r1.grade_id = g.grade_id
        /\ r2.product = "Rice" /\ r2.grade_id = g.grade_id
        /\ r1.rate_qtl = R(2) /\ r1.revenue = R(6)
        /\ r2.rate_qtl = R(5) /\ r2.revenue = R(15)

-----------------------------------------------------------------------------
(* Deleting a master row *)

\* the paddy ids, and the grade ids, that transaction rows refer to
RefPaddyReferred ==
    { r.paddy_id : r \in purchases \cup milling_input \cup milling_output }
RefGradeReferred ==
    { r.grade_id : r \in milling_output } \cup
    { r.grade_id : r \in { x \in sales : x.product = "Rice" } }

\* C17: every paddy type and every grade in the masters can be deleted, the
\* Delete removing its master row and leaving the four transaction tables as
\* they are; and for every identifier that transaction rows refer to and that
\* has no master row, the stock view has a row with the quantities summed
\* from the tables and a blank name, and the yield view, which never fails,
\* has a row for it with a blank name whenever it was milled.
C17_DeleteNoCascade ==
    /\ \A sel \in PaddyOptions :
          ENABLED (DeletePaddy /\ sel \notin PaddyOptions' /\ UNCHANGED tables)
    /\ \A sel \in GradeOptions :
          ENABLED (DeleteGrade /\ sel \notin GradeOptions' /\ UNCHANGED tables)
    /\ \A p \in RefPaddyReferred \ PaddyOptions :
          /\ (\E r \in purchases \cup milling_input : r.paddy_id = p)
                => \E row \in paddy_stock :
                      /\ row.paddy_id = p
                      /\ row.Paddy = NoName
                      /\ row.in_qtl = RefPurchased(p)
                      /\ row.used_qtl = RefUsed(p)
          /\ (\E r \in milling_input \cup milling_output : r.paddy_id = p)
                => \A o \in yield_by_paddy :
                      /\ ~o.raised
                      /\ \E row \in o.rows :
                            /\ row.paddy_id = p
                            /\ row.Paddy = NoName
                            /\ row.paddy_used_qtl = RefUsedOfKey(p)
                            /\ row.rice_out_qtl = RefOutOfKey(p)
    /\ \A g \in RefGradeReferred \ (GradeOptions \cup { NULL, Blank }) :
          \E row \in grade_stock :
              /\ row.grade_id = g
              /\ row.Grade = NoName
              /\ row.out_qtl = RefGradeOut(g)
              /\ row.sold_qtl = RefRiceSold(g)
    /\ \A o \in yield_by_date : ~o.raised

\* C17 witness: the added paddy type PAD-1718 was bought and milled into rice
\* without a milling input and then deleted: the paddy stock shows its row
\* with a blank name, and the yield view can fail
C17_Witness ==
    /\ NewPaddy.paddy_id \notin PaddyOptions
    /\ \E r \in purchases : r.paddy_id = NewPaddy.paddy_id /\ r.final_qtl = R(3)
    /\ \E r \in milling_output : r.paddy_id = NewPaddy.paddy_id
    /\ \E row \in paddy_stock :
          /\ row.paddy_id = NewPaddy.paddy_id
          /\ row.Paddy = NoName
          /\ row.in_qtl = R(3)
    /\ \E o \in yield_by_paddy : o.raised

-----------------------------------------------------------------------------
(* The views only read *)

-----------------------------------------------------------------------------
(* What an edit leaves alone *)

\* C21: in every step, a row that is in its table before and after keeps its
\* date, its paddy type and grade references, its product and its quintal and
\* kilogram entry columns: an edit writes the final quantity, the rate and
\* the cost or revenue only (the witness is an edited row whose final
\* quantity is no longer the normalisation of its entry columns).
C21_EditFrame ==
    [][ /\ \A r \in purchases : \A n \in purchases' :
              n.id = r.id => /\ n.dt = r.dt /\ n.paddy_id = r.paddy_id
                             /\ n.qty_qtl = r.qty_qtl /\ n.qty_kg = r.qty_kg
        /\ \A r \in milling_input : \A n \in milling_input' :
              n.id = r.id => /\ n.dt = r.dt /\ n.paddy_id = r.paddy_id
                             /\ n.used_qtl = r.used_qtl /\ n.used_kg = r.used_kg
        /\ \A r \in milling_output : \A n \in milling_output' :
              n.id = r.id => /\ n.dt = r.dt /\ n.paddy_id = r.paddy_id
                             /\ n.grade_id = r.grade_id
                             /\ n.out_qtl = r.out_qtl /\ n.out_kg = r.out_kg
        /\ \A r \in sales : \A n \in sales' :
              n.id = r.id => /\ n.dt = r.dt /\ n.product = r.product
                             /\ n.grade_id = r.grade_id
                             /\ n.qty_qtl = r.qty_qtl /\ n.qty_kg = r.qty_kg
      ]_vars

\* C21 witness: a purchase of the cloud script entered as 3 qtl at rate 2 and
\* edited to 1 qtl: the entry column still holds 3, the final quantity is 1
\* and the cost is 1 * 2
C21_Witness ==
    /\ script = "cloud"
    /\ \E r \in purchases :
          /\ r.qty_qtl = R(3) /\ r.qty_kg = Zero
          /\ r.final_qtl = R(1)
          /\ r.final_qtl # Normalize(r.qty_qtl, r.qty_kg, get_cfg)
          /\ r.rate_qtl = R(2) /\ r.cost = R(2)

-----------------------------------------------------------------------------
(* One statement, one table, one row *)

\* table t becomes tn by one INSERT of a row with the next id after last, by
\* one UPDATE of a row that keeps its id, or by one DELETE of a row
RefOneRowWritten(t, tn, last) ==
    LET added == tn \ t
        removed == t \ tn
    IN  \/ /\ removed = {}
           /\ \E n \in added : added = { n } /\ n.id = last + 1
        \/ /\ added = {}
           /\ \E r \in removed : removed = { r }
        \/ \E n \in added, r \in removed :
              added = { n } /\ removed = { r } /\ n.id = r.id

\* C22: a step that changes a transaction table changes exactly one of the
\* four, by one inserted row, one updated row or one deleted row, every other
\* row of that table staying as it was; the three other transaction tables,
\* the two master tables and the configuration are unchanged in that step.
C22_OneTableOneRow ==
    [][ tables' # tables
          => /\ UNCHANGED <<config, paddy_types, rice_grades>>
             /\ \/ /\ RefOneRowWritten(purchases, purchases', seq.purchases)
                   /\ UNCHANGED <<milling_input, milling_output, sales>>
                \/ /\ RefOneRowWritten(milling_input, milling_input', seq.milling_input)
                   /\ UNCHANGED <<purchases, milling_output, sales>>
                \/ /\ RefOneRowWritten(milling_output, milling_output',
                                        seq.milling_output)
                   /\ UNCHANGED <<purchases, milling_input, sales>>
                \/ /\ RefOneRowWritten(sales, sales', seq.sales)
                   /\ UNCHANGED <<purchases, milling_input, milling_output>>
      ]_vars

\* C22 witness: two purchases were added, the first was deleted and the second
\* was edited, and nothing else was written
C22_Witness ==
    /\ script = "cloud"
    /\ seq.purchases = 2
    /\ \E r \in purchases :
          purchases = { r } /\ r.id = 2 /\ r.qty_qtl = R(3) /\ r.final_qtl = R(1)
    /\ milling_input = {} /\ milling_output = {} /\ sales = {}
    /\ get_cfg = IntToStr(KG_PER_QTL_DEFAULT)

-----------------------------------------------------------------------------
(* Sign of the stored quantities and rates *)

\* C23: in every reachable state the final quantity of every purchase,
\* milling input, milling output and sale, and the rate of every purchase and
\* sale, is 0 or more.
C23_NonNegativeStore ==
    /\ \A r \in purchases : ~RLt(r.final_qtl, Zero) /\ ~RLt(r.rate_qtl, Zero)
    /\ \A r \in milling_input : ~RLt(r.final_used_qtl, Zero)
    /\ \A r \in milling_output : ~RLt(r.final_out_qtl, Zero)
    /\ \A r \in sales : ~RLt(r.final_qtl, Zero) /\ ~RLt(r.rate_qtl, Zero)

\* C23 witness: a purchase entered as 3 qtl at rate 2 and edited to -1 qtl,
\* stored with cost -2, and the paddy stock showing -1 purchased
C23_Witness ==
    /\ \E r \in purchases :
          /\ r.qty_qtl = R(3) /\ r.final_qtl = R(-1)
          /\ r.rate_qtl = R(2) /\ r.cost = R(-2)
    /\ \E row \in paddy_stock : row.in_qtl = R(-1)

-----------------------------------------------------------------------------
(* Identifiers and names of the masters *)

\* C24: in every reachable state no two paddy types share an identifier or a
\* name, and no two grades do; no Add Paddy can store a row whose identifier
\* or name a stored row already has (the table is left as it was), and no
\* Rename can give a row a name another row holds; in a step in which a
\* stored paddy type gets another name, it is the only stored row that
\* changes, it keeps its identifier, every row that appears besides is a seed
\* row of init_db, and the transaction tables are unchanged.
C24_MastersUnique ==
    /\ [](/\ \A x \in paddy_types, y \in paddy_types :
               (x.paddy_id = y.paddy_id \/ x.paddy_name = y.paddy_name) => x = y
          /\ \A x \in rice_grades, y \in rice_grades :
               (x.grade_id = y.grade_id \/ x.grade_name = y.grade_name) => x = y
          /\ ~ ENABLED ((AddPaddyCloud \/ AddPaddyType) /\
                         \E n \in paddy_types' \ paddy_types :
                           \E x \in paddy_types :
                             x.paddy_id = n.paddy_id \/ x.paddy_name = n.paddy_name)
          /\ ~ ENABLED ((RenamePaddyCloud \/ RenamePaddyType) /\
                         \E n \in paddy_types' \ paddy_types :
                           \E x \in paddy_types :
                             x.paddy_id # n.paddy_id /\ x.paddy_name = n.paddy_name
                             /\ x \in paddy_types'))
    /\ [][ \A r \in paddy_types : \A n \in paddy_types' :
              (n.paddy_id = r.paddy_id /\ n.paddy_name # r.paddy_name)
                => /\ paddy_types \ paddy_types' = { r }
                   /\ (paddy_types' \ paddy_types) \ { n } \subseteq SeedPaddy
                   /\ UNCHANGED <<tables, rice_grades>> ]_vars

\* C24 witness: the seeded paddy type PAD-1509 carries the name Basmati, its
\* purchase still refers to PAD-1509, the new paddy type PAD-1718 is stored,
\* and the new grade is stored
C24_Witness ==
    /\ [paddy_id |-> "PAD-1509", paddy_name |-> "Basmati"] \in paddy_types
    /\ NewPaddy \in paddy_types
    /\ NewGrade \in rice_grades
    /\ \E r \in purchases : r.paddy_id = "PAD-1509"

-----------------------------------------------------------------------------
(* init_db on a database that is in use *)

\* the paddy_types table as one statement of a Masters handler leaves it,
\* before the next script run calls init_db: a row deleted, a row inserted, a
\* row renamed, or nothing written
RefPaddyWritten ==
    { paddy_types }
    \cup { paddy_types \ { m } : m \in paddy_types }
    \cup { paddy_types \cup { m } : m \in { x \in PaddyInputs : paddy_insert_ok(x) } }
    \cup { paddy_renamed(w[1], w[2]) :
             w \in { v \in PaddyOptions \X NewNames : paddy_rename_ok(v[1], v[2]) } }

\* the rice_grades table as one statement of a Masters handler leaves it
RefGradesWritten ==
    { rice_grades }
    \cup { rice_grades \ { m } : m \in rice_grades }
    \cup { rice_grades \cup { m } : m \in { x \in GradeInputs : grade_insert_ok(x) } }
    \cup { price_updated(w[1], R(w[2])) : w \in GradeOptions \X PriceChoices }

\* C25: init_db leaves a stored conversion as it is; on the master tables as
\* any handler statement leaves them it keeps every stored row as it is (it
\* only adds rows), and a second init_db right after the first changes
\* nothing; the tables of every state a script run starts from are left
\* unchanged by init_db altogether.
C25_InitDbKeeps ==
    /\ init_db_config(config) = config
    /\ init_db_config(init_db_config(NoConfig)) = init_db_config(NoConfig)
    /\ seed_paddy_types(paddy_types) = paddy_types
    /\ seed_rice_grades(rice_grades) = rice_grades
    /\ \A t \in RefPaddyWritten :
          /\ t \subseteq seed_paddy_types(t)
          /\ seed_paddy_types(seed_paddy_types(t)) = seed_paddy_types(t)
    /\ \A t \in RefGradesWritten :
          /\ t \subseteq seed_rice_grades(t)
          /\ seed_rice_grades(seed_rice_grades(t)) = seed_rice_grades(t)

\* C25 witness: the conversion was saved as 200, the seeded grade GRD-WAND has
\* the default price 5, the seeded paddy type PAD-1509 was renamed and a
\* purchase of it is stored
C25_Witness ==
    /\ script = "cloud"
    /\ StrToInt(get_cfg) = 200
    /\ [grade_id |-> "GRD-WAND", grade_name |-> "Wand", default_price_qtl |-> R(5)]
          \in rice_grades
    /\ [paddy_id |-> "PAD-1509", paddy_name |-> "Basmati"] \in paddy_types
    /\ \E r \in purchases : r.paddy_id = "PAD-1509"

-----------------------------------------------------------------------------
(* Seeded master rows come back *)

\* C26: in every state a script run shows, each seeded paddy type and each
\* seeded grade is stored under its seed identifier unless another row holds
\* its seed name; a Delete of a seeded paddy type ends with the seed row
\* stored under its seed identifier and seed name, unless another row holds
\* that name; a transaction row of a stored paddy type is shown with the
\* stored name; and a paddy type that is not seeded can be deleted in the
\* cloud script, and a row with an identifier that is not seeded appears only
\* by an Add.
C26_SeedsComeBack ==
    /\ [](/\ \A s \in SeedPaddy :
               \/ \E m \in paddy_types : m.paddy_id = s.paddy_id
               \/ \E m \in paddy_types : m.paddy_name = s.paddy_name
          /\ \A s \in SeedGrades :
               \/ \E m \in rice_grades : m.grade_id = s.grade_id
               \/ \E m \in rice_grades : m.grade_name = s.grade_name
          /\ \A row \in paddy_stock :
               row.paddy_id \in PaddyOptions
                 => [paddy_id |-> row.paddy_id, paddy_name |-> row.Paddy] \in paddy_types
          /\ \A m \in paddy_types :
               (script = "cloud" /\ m.paddy_id \notin { s.paddy_id : s \in SeedPaddy })
                 => ENABLED (DeletePaddy /\ m.paddy_id \notin PaddyOptions'))
    /\ [][ /\ DeletePaddy
                => \A s \in SeedPaddy :
                     (\E r \in paddy_types \ paddy_types' : r.paddy_id = s.paddy_id)
                       => \/ s \in paddy_types'
                          \/ /\ s.paddy_id \notin PaddyOptions'
                             /\ \E m \in paddy_types' : m.paddy_name = s.paddy_name
           /\ \A n \in paddy_types' :
                (/\ n.paddy_id \notin PaddyOptions
                 /\ n.paddy_id \notin { s.paddy_id : s \in SeedPaddy })
                  => (AddPaddyCloud \/ AddPaddyType) ]_vars

\* C26 witness: the seeded paddy type PAD-1121 was renamed and then deleted
\* while the added PAD-1718 holds the name 1121: it stays deleted, and its
\* purchase is shown without a name
C26_Witness ==
    /\ "PAD-1121" \notin PaddyOptions
    /\ [paddy_id |-> "PAD-1718", paddy_name |-> "1121"] \in paddy_types
    /\ \E r \in purchases : r.paddy_id = "PAD-1121"
    /\ \E row \in paddy_stock : row.paddy_id = "PAD-1121" /\ row.Paddy = NoName

-----------------------------------------------------------------------------
(* The sidebar value and the stored conversion *)

\* C27: every row added with a kilogram entry only gets as final quantity the
\* kilograms divided by the conversion stored when Add is pressed, whatever
\* the sidebar shows; and a step that changes the sidebar value without
\* Save Conversion leaves the stored conversion and the tables as they are.
C27_PersistedConversion ==
    [][ /\ \A n \in purchases' \ purchases :
              (~RPos(n.qty_qtl) /\ RPos(n.qty_kg))
                => n.final_qtl = RDiv(n.qty_kg, R(StrToInt(config)))
        /\ \A n \in milling_input' \ milling_input :
              (~RPos(n.used_qtl) /\ RPos(n.used_kg))
                => n.final_used_qtl = RDiv(n.used_kg, R(StrToInt(config)))
        /\ \A n \in milling_output' \ milling_output :
              (~RPos(n.out_qtl) /\ RPos(n.out_kg))
                => n.final_out_qtl = RDiv(n.out_kg, R(StrToInt(config)))
        /\ \A n \in sales' \ sales :
              (~RPos(n.qty_qtl) /\ RPos(n.qty_kg))
                => n.final_qtl = RDiv(n.qty_kg, R(StrToInt(config)))
        /\ (sidebar' # sidebar /\ ~SaveConversion)
              => UNCHANGED <<config, tables, paddy_types, rice_grades>>
      ]_vars

\* C27 witness: 200 is stored, the sidebar shows 50, and a purchase entered as
\* 50 kg has the final quantity 50 / 200
C27_Witness ==
    /\ StrToInt(get_cfg) = 200
    /\ sidebar = 50
    /\ \E r \in purchases :
          RIsZero(r.qty_qtl) /\ r.qty_kg = R(50) /\ r.final_qtl = Rat(50, 200)

-----------------------------------------------------------------------------
(* The views agree on the paddy used *)

\* the sum of final_used_qtl over all milling inputs
RefUsedTotal ==
    RefSum(milling_input, seq.milling_input, LAMBDA r : TRUE, LAMBDA r : r.final_used_qtl)

\* the sum of one column over the rows of a frame given as a sequence
RefColumnTotal(rows, Val(_)) ==
    RefTotal([ i \in 1..Len(rows) |-> Val(rows[i]) ], Len(rows))

\* the totals of the used column agree where the yield frames are produced
RefUsedTotalsAgree ==
    /\ COALESCE(SUM({ <<row.paddy_id, row.used_qtl>> : row \in paddy_stock }), Zero)
          = RefUsedTotal
    /\ \A o \in yield_by_paddy :
          ~o.raised =>
            COALESCE(SUM({ <<row.paddy_id, row.paddy_used_qtl>> : row \in o.rows }), Zero)
              = RefUsedTotal
    /\ \A o \in yield_by_date :
          ~o.raised =>
            RefColumnTotal(o.rows, LAMBDA row : row.Paddy_Used_qtl) = RefUsedTotal
    /\ RefColumnTotal(daily_summary, LAMBDA row : row.Paddy_USED_qtl) = RefUsedTotal

\* C28: in every reachable state the used_qtl column of the paddy stock, the
\* used column of the yield by paddy type, the used column of the daily yield
\* and the Paddy_USED_qtl column of the daily summary each sum to the sum of
\* final_used_qtl over all milling inputs, whatever pandas the script is
\* deployed with (a report that raises shows no row).
C28_UsedTotalsAgree ==
    /\ COALESCE(SUM({ <<row.paddy_id, row.used_qtl>> : row \in paddy_stock }), Zero)
          = RefUsedTotal
    /\ \A o \in yield_by_paddy :
          COALESCE(SUM({ <<row.paddy_id, row.paddy_used_qtl>> : row \in o.rows }), Zero)
            = RefUsedTotal
    /\ \A o \in yield_by_date :
          RefColumnTotal(o.rows, LAMBDA row : row.Paddy_Used_qtl) = RefUsedTotal
    /\ RefColumnTotal(daily_summary, LAMBDA row : row.Paddy_USED_qtl) = RefUsedTotal

\* C28 witness: two milling inputs of different paddy types on different days
\* and a milling output of a third kind of key, one with no milling input on
\* its day or for its paddy type: the stock and the daily summary total 6,
\* and so do the yield frames where round(2) does not raise, while on the
\* other deployments both yield frames raise
C28_Witness ==
    /\ RefUsedTotal = R(6)
    /\ Cardinality(paddy_stock) = 2
    /\ Len(daily_summary) = 2
    /\ RefUsedTotalsAgree
    /\ \E o \in yield_by_paddy : o.raised
    /\ \E o \in yield_by_paddy : ~o.raised /\ Cardinality(o.rows) = 2
    /\ \E o \in yield_by_date : o.raised
    /\ \E o \in yield_by_date : ~o.raised /\ Len(o.rows) = 2

-----------------------------------------------------------------------------
(* Adding a row and deleting it again *)

\* the number of rows inserted while rows are added and deleted again
MaxInsertsRoundTrip == 2

\* the cloud script's add and delete handlers of the four transaction tables
NextRoundTrip ==
    \/ AddPurchaseCloud(MaxInsertsRoundTrip)
    \/ DeletePurchase
    \/ AddMillingInputCloud(MaxInsertsRoundTrip)
    \/ DeleteMillingInput
    \/ AddMillingOutputCloud(MaxInsertsRoundTrip)
    \/ DeleteMillingOutput
    \/ AddSaleCloud(MaxInsertsRoundTrip)
    \/ DeleteSale

SpecRoundTrip == InitCloud /\ [][NextRoundTrip]_vars

\* what the five derived views show: the paddy stock, the grade stock and
\* the daily summary as displayed, and for yield_by_paddy and yield_by_date
\* the frame and the names that their Yield column and rows are computed from
RefViews ==
    <<paddy_stock, grade_stock, daily_summary,
      yield_frame_by_paddy, paddy_names, yield_frame_by_date>>

\* the delete step that removes the row created last in table tn
RefDeleteNewest(tn) ==
    CASE tn = "purchases" ->
           DeletePurchase /\ \A r \in purchases' : r.id # seq.purchases
      [] tn = "milling_input" ->
           DeleteMillingInput /\ \A r \in milling_input' : r.id # seq.milling_input
      [] tn = "milling_output" ->
           DeleteMillingOutput /\ \A r \in milling_output' : r.id # seq.milling_output
      [] tn = "sales" ->
           DeleteSale /\ \A r \in sales' : r.id # seq.sales

\* the add steps of the cloud script, and the table each writes
RefAddOf(tn) ==
    CASE tn = "purchases" -> AddPurchaseCloud(MaxInsertsRoundTrip)
      [] tn = "milling_input" -> AddMillingInputCloud(MaxInsertsRoundTrip)
      [] tn = "milling_output" -> AddMillingOutputCloud(MaxInsertsRoundTrip)
      [] tn = "sales" -> AddSaleCloud(MaxInsertsRoundTrip)

\* C29: whenever an add handler of the cloud script inserts a row, deleting
\* the row of that id straight afterwards leaves paddy_stock, grade_stock and
\* daily_summary exactly as they were before the add, and likewise the frames
\* and names that yield_by_paddy and yield_by_date are computed from, so that
\* all five views are restored.
C29_AddThenDeleteRestores ==
    [][ \A tn \in DOMAIN seq :
          RefAddOf(tn) =>
            \A before \in { RefViews } :
              ( ~ENABLED ( /\ RefDeleteNewest(tn)
                           /\ RefViews' # before ) )' ]_vars

\* C29 witness: a purchase was added to two milling inputs and deleted again:
\* the purchases table is empty, its one id is used up, and the views are
\* those of the two milling inputs alone
C29_Witness ==
    /\ seq.purchases = 1 /\ purchases = {}
    /\ seq.milling_input = 1 /\ Cardinality(milling_input) = 1
    /\ \E row \in paddy_stock : row.in_qtl = Zero /\ row.used_qtl = R(3)
    /\ Len(daily_summary) = 1

-----------------------------------------------------------------------------
(* Row ids *)

\* the ids of the rows of a table
RefIds(t) == { r.id : r \in t }

\* no two rows of table t share an id, and every id is one that was issued
RefIdsUnique(t, issued) ==
    /\ \A r1, r2 \in t : r1.id = r2.id => r1 = r2
    /\ RefIds(t) \subseteq 1..issued

\* a step of table t (t_next afterwards) whose last issued id goes from
\* issued to issued_next: an id that appears is the one after every id issued
\* so far, the count of issued ids never goes back, and a row that changes
\* keeps its id while every other row stays as it is
RefIdsIncrease(t, t_next, issued, issued_next) ==
    /\ issued_next >= issued
    /\ RefIds(t_next) \ RefIds(t) \subseteq { issued + 1 }
    /\ RefIds(t_next) \ RefIds(t) # {} => issued_next = issued + 1
    /\ Cardinality(t \ t_next) <= 1
    /\ \A r \in t_next \ t : r.id \in RefIds(t) => RefIds(t \ t_next) = { r.id }

\* C30: in each of the four transaction tables the ids of the rows are
\* unique and lie among the ids issued so far; every row that is created gets
\* the id after the last one issued, greater than the id of every row created
\* before it, deleted rows included, so no id is used twice; and an edit or
\* delete changes or removes the one row of the id it names and leaves every
\* other row, later ones included, as it is.
C30_IdsNeverReused ==
    /\ [](/\ RefIdsUnique(purchases, seq.purchases)
          /\ RefIdsUnique(milling_input, seq.milling_input)
          /\ RefIdsUnique(milling_output, seq.milling_output)
          /\ RefIdsUnique(sales, seq.sales))
    /\ [][ /\ RefIdsIncrease(purchases, purchases', seq.purchases, seq.purchases')
           /\ RefIdsIncrease(milling_input, milling_input',
                             seq.milling_input, seq.milling_input')
           /\ RefIdsIncrease(milling_output, milling_output',
                             seq.milling_output, seq.milling_output')
           /\ RefIdsIncrease(sales, sales', seq.sales, seq.sales') ]_vars

\* C30 witness: the first purchase was deleted and the purchase created after
\* it holds id 2; id 1 is free and stays unused
C30_Witness ==
    /\ script = "cloud"
    /\ seq.purchases = 2
    /\ RefIds(purchases) = { 2 }

=============================================================================
